---- MODULE Spec2Model ----
(***************************************************************************)
(* xml-skimmer: the streaming scan skim_xml (src/lib.rs), the selector     *)
(* matching engine and the selector parsers (src/selector.rs).             *)
(*                                                                         *)
(* A Rust String / &str is a sequence of one-character strings.            *)
(* Option<T> is a sequence of length 0 (None) or 1 (Some).                 *)
(* A HashMap<String, V> is a function whose domain is the set of keys.     *)
(***************************************************************************)
EXTENDS Integers, Sequences, FiniteSets, TLC

VARIABLES
    xml_src,       \* skim_xml's argument, the whole text
    handler_keys,  \* the keys of skim_xml's HashMap argument, as into_iter yields them
    handlers,      \* the Vec<(CommaSeparated<Selector>, F)> of line 19-21
    iter,          \* xml_src.chars(): the characters not yet read
    stack,         \* Vec<ParsedNode>
    current_node,  \* ParsedNode being read
    current_attr,  \* Attr being read
    node_type,     \* NodeType
    writing_to,    \* WriteTo
    result,        \* what skim_xml has returned, or Running
    calls,         \* the handler invocations made so far, in order
    events,        \* the '>' arms executed so far, in order
    sel,           \* receiver of a direct match_node / match_simple call
    matched,       \* Option: the value that call returned
    input,         \* argument of a direct from_str call
    parsed         \* Option: the value that call returned

vars == <<xml_src, handler_keys, handlers, iter, stack, current_node, current_attr,
          node_type, writing_to, result, calls, events, sel, matched, input, parsed>>

scan_vars == <<xml_src, handler_keys, handlers, iter, current_node, current_attr,
               node_type, writing_to, result, calls, events>>

-----------------------------------------------------------------------------
(* Option, String, HashMap *)

None == <<>>

Some(x) == <<x>>

EmptyMap == [k \in {} |-> <<>>]

insert(map, k, v) == [x \in (DOMAIN map) \cup {k} |-> IF x = k THEN v ELSE map[x]]

contains_key(map, k) == k \in DOMAIN map

Last(s) == s[Len(s)]

\* s.strip_prefix(p)
strip_prefix(s, p) ==
    IF Len(s) >= Len(p) /\ SubSeq(s, 1, Len(p)) = p
    THEN Some(SubSeq(s, Len(p) + 1, Len(s)))
    ELSE None

\* s.split_once(pat): split at the first occurrence of pat
split_once(s, pat) ==
    LET at == {i \in 1..(Len(s) - Len(pat) + 1) : SubSeq(s, i, i + Len(pat) - 1) = pat}
    IN  IF at = {} THEN None
        ELSE LET i == CHOOSE j \in at : \A k \in at : j <= k
             IN  Some(<<SubSeq(s, 1, i - 1), SubSeq(s, i + Len(pat), Len(s))>>)

\* s.split(c): the pieces between the occurrences of the character c
RECURSIVE split(_, _)
split(s, c) ==
    LET at == {i \in 1..Len(s) : s[i] = c}
    IN  IF at = {} THEN <<s>>
        ELSE LET i == CHOOSE j \in at : \A k \in at : j <= k
             IN  <<SubSeq(s, 1, i - 1)>> \o split(SubSeq(s, i + 1, Len(s)), c)

\* char::is_whitespace, on the characters of the model
is_whitespace(c) == c \in {" ", "\n", "\t", "\r"}

-----------------------------------------------------------------------------
(* Node model: src/lib.rs *)

ParsedNode_default == [tag |-> <<>>, attributes |-> EmptyMap]

Attr_default == [name |-> <<>>, value |-> <<>>]

CLASS == <<"c", "l", "a", "s", "s">>

ID == <<"i", "d">>

class_list(node) ==
    IF contains_key(node.attributes, CLASS)
    THEN LET list == split(node.attributes[CLASS], " ")
         IN  {list[i] : i \in 1..Len(list)}
    ELSE {}

-----------------------------------------------------------------------------
(* Selector matching: src/selector.rs *)

Selector_default ==
    [tag |-> None, id |-> None, classes |-> {}, attributes |-> EmptyMap, parent |-> None]

\* match_simple without the arm `(None, Some(_)) => return false` (line 194):
\* a selector with an id accepts a node that has no id
match_simple_without_missing_id_arm(self, node) ==
    IF self.tag # None /\ node.tag # self.tag[1] THEN FALSE
    ELSE IF self.id # None /\ contains_key(node.attributes, ID)
                           /\ node.attributes[ID] # self.id[1] THEN FALSE
    ELSE IF \E class \in self.classes : class \notin class_list(node) THEN FALSE
    ELSE IF \E a \in DOMAIN self.attributes :
                IF self.attributes[a] # None
                THEN \/ ~contains_key(node.attributes, a)
                     \/ node.attributes[a] # self.attributes[a][1]
                ELSE ~contains_key(node.attributes, a)
         THEN FALSE
    ELSE TRUE

\* Selector::match_simple
match_simple(self, node) ==
    IF self.tag # None /\ node.tag # self.tag[1] THEN FALSE
    ELSE IF self.id # None /\ ~contains_key(node.attributes, ID) THEN FALSE
    ELSE IF self.id # None /\ node.attributes[ID] # self.id[1] THEN FALSE
    ELSE IF \E class \in self.classes : class \notin class_list(node) THEN FALSE
    ELSE IF \E a \in DOMAIN self.attributes :
                IF self.attributes[a] # None
                THEN \/ ~contains_key(node.attributes, a)
                     \/ node.attributes[a] # self.attributes[a][1]
                ELSE ~contains_key(node.attributes, a)
         THEN FALSE
    ELSE TRUE

\* descendant_scan without its loop: only the nearest entry is tried, as for Child
descendant_scan_nearest_only(selector, stack_, n) ==
    IF n = 0 THEN -1
    ELSE IF match_simple(selector, stack_[n]) THEN n - 1
    ELSE -1

\* descendant_scan that stops at the matching entry farthest from the node
\* instead of the nearest one
descendant_scan_farthest(selector, stack_, n) ==
    LET at == {m \in 1..n : match_simple(selector, stack_[m])}
    IN  IF at = {} THEN -1
        ELSE (CHOOSE m \in at : \A k \in at : m <= k) - 1

\* The inner loop of the Descendant arm: node_iter yields stack[n], stack[n-1], ...
\* until a node matches. Returns the number of nodes left in node_iter after the
\* match, or -1 when node_iter is exhausted without one.
RECURSIVE descendant_scan(_, _, _)
descendant_scan(selector, stack_, n) ==
    IF n = 0 THEN -1
    ELSE IF match_simple(selector, stack_[n]) THEN n - 1
    ELSE descendant_scan(selector, stack_, n - 1)

\* The while loop of Selector::match_node. n is the number of nodes node_iter
\* has not yielded yet; sel_iter and combinator are Options.
RECURSIVE match_loop(_, _, _, _)
match_loop(stack_, n, sel_iter, combinator) ==
    IF sel_iter = None THEN TRUE
    ELSE LET selector == sel_iter[1]
             next_sel == IF selector.parent = None THEN None
                         ELSE Some(selector.parent[1].sel)
             next_comb == IF selector.parent = None THEN combinator
                          ELSE Some(selector.parent[1].comb)
         IN  IF combinator = Some("Descendant")
             THEN LET left == descendant_scan(selector, stack_, n)
                  IN  IF left < 0 THEN FALSE
                      ELSE match_loop(stack_, left, next_sel, next_comb)
             ELSE IF n = 0 THEN FALSE
             ELSE IF ~match_simple(selector, stack_[n]) THEN FALSE
             ELSE match_loop(stack_, n - 1, next_sel, next_comb)

\* Selector::match_node
Selector_match_node(self, stack_) == match_loop(stack_, Len(stack_), Some(self), None)

\* CommaSeparated::match_node that looks at the first selector only
CommaSeparated_match_first_only(self, stack_) ==
    IF self = <<>> THEN FALSE
    ELSE Selector_match_node(Head(self), stack_)

\* CommaSeparated<Selector>::match_node
RECURSIVE CommaSeparated_match_node(_, _)
CommaSeparated_match_node(self, stack_) ==
    IF self = <<>> THEN FALSE
    ELSE IF Selector_match_node(Head(self), stack_) THEN TRUE
    ELSE CommaSeparated_match_node(Tail(self), stack_)

-----------------------------------------------------------------------------
(* Selector parsing: FromStr in src/selector.rs *)

\* Ok(v) of a from_str
OkOf(v) == [kind |-> "Ok", value |-> Some(v)]

\* Err(SelectorParseError::e) of a from_str
ErrOf(e) == [kind |-> e, value |-> None]

\* The variants of SelectorParseError, lines 455-475
SelectorParseError ==
    {"MultipleTags", "MultipleIDs", "EmptyToken", "UnknownPrefix", "UnclosedString",
     "UnclosedBracket", "NoOtherSideCombinator", "BadChar", "WhiteSpace", "EmptyString"}

\* char::is_ascii_punctuation (the backquote is not a character of the model)
is_ascii_punctuation(c) ==
    c \in {"!", "\"", "#", "$", "%", "&", "'", "(", ")", "*", "+", ",", "-", ".",
           "/", ":", ";", "<", "=", ">", "?", "@", "[", "\\", "]", "^", "_",
           "{", "|", "}", "~"}

\* str::trim_start
RECURSIVE trim_start(_)
trim_start(s) ==
    IF s # <<>> /\ is_whitespace(Head(s)) THEN trim_start(Tail(s)) ELSE s

\* str::trim_end
RECURSIVE trim_end(_)
trim_end(s) ==
    IF s # <<>> /\ is_whitespace(Last(s)) THEN trim_end(SubSeq(s, 1, Len(s) - 1)) ELSE s

\* str::trim
trim(s) == trim_end(trim_start(s))

\* PushTo::new
PushTo_new(c) ==
    CASE c = "#" -> "Id"
      [] c = "." -> "Classes"
      [] c = "[" -> "AttrName"
      [] OTHER -> "Tag"

\* fn push, lines 247-273: Ok with the selector after the assignment, or Err
push(to, selector, buf) ==
    CASE to = "Tag" /\ buf = <<>> -> OkOf(selector)
      [] to = "Tag" /\ buf # <<>> ->
            IF selector.tag # None THEN ErrOf("MultipleTags")
            ELSE OkOf([selector EXCEPT !.tag = Some(buf)])
      [] to = "Id" ->
            IF selector.id # None THEN ErrOf("MultipleIDs")
            ELSE IF buf # <<>> THEN OkOf([selector EXCEPT !.id = Some(buf)])
            ELSE ErrOf("EmptyToken")
      [] to = "Classes" ->
            IF buf # <<>> THEN OkOf([selector EXCEPT !.classes = @ \cup {buf}])
            ELSE ErrOf("EmptyToken")
      [] OTHER -> ErrOf("UnclosedBracket")

\* lines 290-296: the first character that is not whitespace, and what follows it
RECURSIVE next_after_whitespace(_)
next_after_whitespace(chars) ==
    IF chars = <<>> THEN [next |-> None, chars |-> <<>>]
    ELSE IF ~is_whitespace(Head(chars)) THEN [next |-> Some(Head(chars)), chars |-> Tail(chars)]
    ELSE next_after_whitespace(Tail(chars))

\* lines 324-332 and 347-355: look for `]` through whitespace
RECURSIVE find_closing_bracket(_)
find_closing_bracket(chars) ==
    IF chars = <<>> THEN [bad |-> FALSE, found |-> FALSE, chars |-> <<>>]
    ELSE IF Head(chars) = "]" THEN [bad |-> FALSE, found |-> TRUE, chars |-> Tail(chars)]
    ELSE IF ~is_whitespace(Head(chars)) THEN [bad |-> TRUE, found |-> FALSE, chars |-> Tail(chars)]
    ELSE find_closing_bracket(Tail(chars))

\* lines 315-332: the value up to the closing quote, then the `]`
quoted_value(chars, quote) ==
    LET found == split_once(chars, <<quote>>)
    IN  IF found = None
        THEN [bad |-> FALSE, val_buf |-> chars, found_closing_quote |-> FALSE,
              found_closing_bracket |-> FALSE, chars |-> <<>>]
        ELSE LET b == find_closing_bracket(found[1][2])
             IN  [bad |-> b.bad, val_buf |-> found[1][1], found_closing_quote |-> TRUE,
                  found_closing_bracket |-> b.found, chars |-> b.chars]

\* lines 335-344: the value is every character until `]` or whitespace
RECURSIVE until_bracket_or_whitespace(_, _)
until_bracket_or_whitespace(chars, val_buf) ==
    IF chars = <<>> THEN [val_buf |-> val_buf, found |-> FALSE, chars |-> <<>>]
    ELSE IF is_whitespace(Head(chars))
    THEN [val_buf |-> val_buf, found |-> FALSE, chars |-> Tail(chars)]
    ELSE IF Head(chars) = "]"
    THEN [val_buf |-> val_buf, found |-> TRUE, chars |-> Tail(chars)]
    ELSE until_bracket_or_whitespace(Tail(chars), Append(val_buf, Head(chars)))

\* lines 305-310 and 333-357: the value without quotes, from its first character
\* `next` (an Option) on, then the `]`
bare_value(chars, next) ==
    LET v == until_bracket_or_whitespace(chars, next)
        b == find_closing_bracket(v.chars)
    IN  IF v.found
        THEN [bad |-> FALSE, val_buf |-> v.val_buf, found_closing_quote |-> FALSE,
              found_closing_bracket |-> TRUE, chars |-> v.chars]
        ELSE [bad |-> b.bad, val_buf |-> v.val_buf, found_closing_quote |-> FALSE,
              found_closing_bracket |-> b.found, chars |-> b.chars]

\* lines 403-419: the combinator within the whitespace and the first character
\* of the next simple selector
RECURSIVE find_combinator(_, _)
find_combinator(chars, combinator) ==
    IF chars = <<>>
    THEN [bad |-> FALSE, first_c |-> None, combinator |-> combinator, chars |-> <<>>]
    ELSE LET c == Head(chars)
         IN  IF c = ">"
             THEN IF combinator = "Descendant" THEN find_combinator(Tail(chars), "Child")
                  ELSE [bad |-> TRUE, first_c |-> None, combinator |-> combinator,
                        chars |-> Tail(chars)]
             ELSE IF is_whitespace(c) THEN find_combinator(Tail(chars), combinator)
             ELSE [bad |-> FALSE, first_c |-> Some(c), combinator |-> combinator,
                   chars |-> Tail(chars)]

\* The while loop of Selector::from_str, lines 275-449, from the characters left
RECURSIVE from_str_loop(_, _, _, _)

\* '#' | '.' | '[' arm, lines 277-283
prefix_arm(character, chars, current_sel, push_to, buf) ==
    LET r == push(push_to, current_sel, buf)
    IN  IF r.kind # "Ok" THEN r
        ELSE from_str_loop(chars, r.value[1], PushTo_new(character), <<>>)

\* eq_arm with the checks of lines 359-364 in the other order: the missing `]`
\* is reported before the missing quote
eq_arm_bracket_first(chars, current_sel, push_to, buf) ==
    IF push_to # "AttrName" THEN ErrOf("BadChar")
    ELSE IF buf = <<>> THEN ErrOf("EmptyToken")
    ELSE LET n == next_after_whitespace(chars)
             quoted == n.next \in {Some("\""), Some("'")}
             v == IF quoted THEN quoted_value(n.chars, n.next[1])
                  ELSE bare_value(n.chars, n.next)
         IN  IF n.next \in {Some("]"), Some("=")} THEN ErrOf("BadChar")
             ELSE IF v.bad THEN ErrOf("BadChar")
             ELSE IF ~v.found_closing_bracket THEN ErrOf("UnclosedBracket")
             ELSE IF quoted /\ ~v.found_closing_quote THEN ErrOf("UnclosedString")
             ELSE from_str_loop(v.chars,
                                [current_sel EXCEPT
                                    !.attributes = insert(@, buf, Some(v.val_buf))],
                                "Tag", <<>>)

\* '=' arm, lines 284-373
eq_arm(chars, current_sel, push_to, buf) ==
    IF push_to # "AttrName" THEN ErrOf("BadChar")
    ELSE IF buf = <<>> THEN ErrOf("EmptyToken")
    ELSE LET n == next_after_whitespace(chars)
             quoted == n.next \in {Some("\""), Some("'")}
             v == IF quoted THEN quoted_value(n.chars, n.next[1])
                  ELSE bare_value(n.chars, n.next)
         IN  IF n.next \in {Some("]"), Some("=")} THEN ErrOf("BadChar")
             ELSE IF v.bad THEN ErrOf("BadChar")
             ELSE IF quoted /\ ~v.found_closing_quote THEN ErrOf("UnclosedString")
             ELSE IF ~v.found_closing_bracket THEN ErrOf("UnclosedBracket")
             ELSE from_str_loop(v.chars,
                                [current_sel EXCEPT
                                    !.attributes = insert(@, buf, Some(v.val_buf))],
                                "Tag", <<>>)

\* ']' arm, lines 375-387
bracket_arm(chars, current_sel, push_to, buf) ==
    IF push_to # "AttrName" THEN ErrOf("BadChar")
    ELSE IF buf = <<>> THEN ErrOf("EmptyToken")
    ELSE from_str_loop(chars, [current_sel EXCEPT !.attributes = insert(@, buf, None)],
                       "Tag", <<>>)

\* whitespace_arm that gives the new selector its left neighbour as parent but
\* drops that neighbour's own parent
whitespace_arm_forgets_ancestors(chars, current_sel, push_to, buf) ==
    IF push_to = "AttrName" THEN from_str_loop(chars, current_sel, push_to, buf)
    ELSE LET r == push(push_to, current_sel, buf)
             f == find_combinator(chars, "Descendant")
             to == PushTo_new(f.first_c[1])
         IN  IF r.kind # "Ok" THEN r
             ELSE IF f.bad THEN ErrOf("UnknownPrefix")
             ELSE IF f.first_c = None
             THEN IF f.combinator = "Descendant" THEN OkOf(r.value[1])
                  ELSE ErrOf("NoOtherSideCombinator")
             ELSE from_str_loop(f.chars,
                                [Selector_default EXCEPT
                                    !.parent = Some([sel |-> [r.value[1] EXCEPT
                                                                 !.parent = None],
                                                     comb |-> f.combinator])],
                                to,
                                IF to = "Tag" THEN f.first_c ELSE <<>>)

\* whitespace_arm without the arm of line 424: whitespace with nothing after it
\* is a combinator with no right-hand side
whitespace_arm_rejects_trailing_whitespace(chars, current_sel, push_to, buf) ==
    IF push_to = "AttrName" THEN from_str_loop(chars, current_sel, push_to, buf)
    ELSE LET r == push(push_to, current_sel, buf)
             f == find_combinator(chars, "Descendant")
             to == PushTo_new(f.first_c[1])
         IN  IF r.kind # "Ok" THEN r
             ELSE IF f.bad THEN ErrOf("UnknownPrefix")
             ELSE IF f.first_c = None THEN ErrOf("NoOtherSideCombinator")
             ELSE from_str_loop(f.chars,
                                [Selector_default EXCEPT
                                    !.parent = Some([sel |-> r.value[1],
                                                     comb |-> f.combinator])],
                                to,
                                IF to = "Tag" THEN f.first_c ELSE <<>>)

\* whitespace arm, lines 390-437
whitespace_arm(chars, current_sel, push_to, buf) ==
    IF push_to = "AttrName" THEN from_str_loop(chars, current_sel, push_to, buf)
    ELSE LET r == push(push_to, current_sel, buf)
             f == find_combinator(chars, "Descendant")
             to == PushTo_new(f.first_c[1])
         IN  IF r.kind # "Ok" THEN r
             ELSE IF f.bad THEN ErrOf("UnknownPrefix")
             ELSE IF f.first_c = None
             THEN IF f.combinator = "Descendant" THEN OkOf(r.value[1])
                  ELSE ErrOf("NoOtherSideCombinator")
             ELSE from_str_loop(f.chars,
                                [Selector_default EXCEPT
                                    !.parent = Some([sel |-> r.value[1],
                                                     comb |-> f.combinator])],
                                to,
                                IF to = "Tag" THEN f.first_c ELSE <<>>)

from_str_loop(chars, current_sel, push_to, buf) ==
    IF chars = <<>> THEN push(push_to, current_sel, buf)
    ELSE LET character == Head(chars)
             rest == Tail(chars)
         IN  CASE character \in {"#", ".", "["} ->
                      prefix_arm(character, rest, current_sel, push_to, buf)
               [] character = "=" -> eq_arm(rest, current_sel, push_to, buf)
               [] character = "]" -> bracket_arm(rest, current_sel, push_to, buf)
               [] is_whitespace(character) ->
                      whitespace_arm(rest, current_sel, push_to, buf)
               [] OTHER ->
                      IF is_ascii_punctuation(character) /\ character \notin {"-", "_"}
                      THEN ErrOf("UnknownPrefix")
                      ELSE from_str_loop(rest, current_sel, push_to, Append(buf, character))

\* Selector::from_str, lines 231-450
Selector_from_str(s) ==
    IF s = <<>> THEN ErrOf("EmptyString")
    ELSE from_str_loop(trim_start(s), Selector_default, "Tag", <<>>)

\* char::len_utf8 for the characters of the model: an ASCII character is one
\* byte; "U+00E9" stands for the one character e with acute accent, two bytes
len_utf8(c) == IF c = "U+00E9" THEN 2 ELSE 1

\* The number of characters that fill the first b bytes of s, or -1 when byte b
\* is no character boundary of s (str::is_char_boundary)
RECURSIVE chars_before(_, _)
chars_before(s, b) ==
    IF b = 0 THEN 0
    ELSE IF s = <<>> \/ len_utf8(Head(s)) > b THEN -1
    ELSE LET n == chars_before(Tail(s), b - len_utf8(Head(s)))
         IN  IF n < 0 THEN -1 ELSE n + 1

\* The slice &s[from..to] of lines 69 and 77, whose indices count bytes:
\* None when one of them is not on a character boundary (the slice panics)
byte_slice(s, from, to) ==
    IF from > to \/ chars_before(s, from) < 0 \/ chars_before(s, to) < 0 THEN None
    ELSE Some(SubSeq(s, chars_before(s, from) + 1, chars_before(s, to)))

\* A slice of from_str panicked
Panicked == [kind |-> "Panic", value |-> None]

\* The statements after the loop, lines 77-82
after_comma_loop(s, i, start_, rtrn) ==
    LET piece == byte_slice(s, start_, i)
        last == trim(piece[1])
        r == Selector_from_str(last)
    IN  IF piece = None THEN Panicked
        ELSE IF last = <<>> THEN OkOf(rtrn)
        ELSE IF r.kind # "Ok" THEN r
        ELSE OkOf(Append(rtrn, r.value[1]))

\* The for loop of CommaSeparated::from_str, lines 58-74, with i characters read
\* (i counts the characters, line 59, and is used as a byte index, lines 69-70)
RECURSIVE comma_loop(_, _, _, _, _)
comma_loop(s, i, start_, string_quote, rtrn) ==
    IF i = Len(s) THEN after_comma_loop(s, i, start_, rtrn)
    ELSE LET c == s[i + 1]
             piece == byte_slice(s, start_, i)
             r == Selector_from_str(trim(piece[1]))
         IN  IF c \in {"'", "\""} /\ string_quote = None
             THEN comma_loop(s, i + 1, start_, Some(c), rtrn)
             ELSE IF c \in {"'", "\""} /\ string_quote = Some(c)
             THEN comma_loop(s, i + 1, start_, None, rtrn)
             ELSE IF c = "," /\ string_quote = None
             THEN IF piece = None THEN Panicked
                  ELSE IF r.kind # "Ok" THEN r
                  ELSE comma_loop(s, i + 1, i + 1, None, Append(rtrn, r.value[1]))
             ELSE comma_loop(s, i + 1, start_, string_quote, rtrn)

\* CommaSeparated<Selector>::from_str, lines 51-83
CommaSeparated_from_str(s) == comma_loop(s, 0, 0, None, <<>>)

-----------------------------------------------------------------------------
(* skim_xml: src/lib.rs *)

\* skim_xml has been called and its lines 19-21 have not run yet
Entered == [kind |-> "Entered", text |-> <<>>, node |-> None]

\* The loop of line 25 is running
Running == [kind |-> "Running", text |-> <<>>, node |-> None]

Ok == [kind |-> "Ok", text |-> <<>>, node |-> None]

\* Err(SkimError::kind(text, node)); a variant without a field leaves it empty
Err(kind, text, node) == [kind |-> kind, text |-> text, node |-> node]

\* The process aborted in a panic!
Panic == [kind |-> "Panic", text |-> <<>>, node |-> None]

\* lines 19-21: the keys parsed in the order the HashMap yields them
RECURSIVE parse_handlers(_)
parse_handlers(keys) ==
    IF keys = <<>> THEN OkOf(<<>>)
    ELSE LET r == CommaSeparated_from_str(Head(keys))
             rest == parse_handlers(Tail(keys))
         IN  IF r.kind # "Ok" THEN r
             ELSE IF rest.kind # "Ok" THEN rest
             ELSE OkOf(<<r.value[1]>> \o rest.value[1])

\* skim_xml's locals right after line 24, as one record
State ==
    [xml_src |-> xml_src, handlers |-> handlers, iter |-> iter, stack |-> stack,
     current_node |-> current_node, current_attr |-> current_attr,
     node_type |-> node_type, writing_to |-> writing_to, result |-> result,
     calls |-> calls, events |-> events]

\* lines 9-16 and 24, with hs the handlers that lines 19-21 built
start(src, hs) ==
    [xml_src |-> src, handlers |-> hs, iter |-> src, stack |-> <<>>,
     current_node |-> ParsedNode_default, current_attr |-> Attr_default,
     node_type |-> "None", writing_to |-> "Content", result |-> Running,
     calls |-> <<>>, events |-> <<>>]

\* The number of characters iter has yielded
consumed(s) == Len(s.xml_src) - Len(s.iter)

\* iter.next() when it yields a character
advance(s) == [s EXCEPT !.iter = Tail(@)]

\* Which part of the loop body (lines 27-216) handles the next character
arm(s) ==
    LET character == Head(s.iter)
    IN  IF s.writing_to = "Content" /\ character # "<" THEN "content"
        ELSE IF character = "<" THEN "<"
        ELSE IF character = "/" THEN "/"
        ELSE IF character = ">" THEN ">"
        ELSE IF is_whitespace(character) THEN "whitespace"
        ELSE IF character = "=" THEN "="
        ELSE IF character \in {"\"", "'"} THEN "quote"
        ELSE "other"

\* skip_delimited that takes an unclosed comment to run to the end of the text
skip_delimited_to_end(s, open, close) ==
    LET remaining == strip_prefix(s.iter, open)[1]
        found == split_once(remaining, close)
    IN  IF found = None
        THEN [s EXCEPT !.iter = <<>>]
        ELSE [s EXCEPT !.iter = found[1][2]]

\* skip_delimited that puts the iterator back on the `<` it was called for
skip_delimited_keeps_position(s, open, close) ==
    LET remaining == strip_prefix(s.iter, open)[1]
        found == split_once(remaining, close)
    IN  IF found = None
        THEN [s EXCEPT !.result = Err("UnclosedComment", remaining, None)]
        ELSE [s EXCEPT !.iter = <<"<">> \o s.iter]

\* lines 41-57 and 59-75: skip `open ... close` when iter starts with open
skip_delimited(s, open, close) ==
    LET remaining == strip_prefix(s.iter, open)[1]
        found == split_once(remaining, close)
    IN  IF found = None
        THEN [s EXCEPT !.result = Err("UnclosedComment", remaining, None)]
        ELSE [s EXCEPT !.iter = found[1][2]]

\* '<' arm, lines 35-76
on_lt(s) ==
    LET s1 == [s EXCEPT !.node_type = "Opening", !.writing_to = "Tag"]
    IN  IF strip_prefix(s1.iter, <<"!", "-", "-">>) # None
        THEN skip_delimited(s1, <<"!", "-", "-">>, <<"-", "-", ">">>)
        ELSE IF strip_prefix(s1.iter, <<"?">>) # None
        THEN skip_delimited(s1, <<"?">>, <<"?", ">">>)
        ELSE s1

\* '/' arm, lines 78-86
on_slash(s) ==
    IF s.current_node.tag = <<>>
    THEN [s EXCEPT !.node_type = "Closing"]
    ELSE [s EXCEPT !.node_type = "SelfClosing"]

\* dispatch with a `break` after the first call: later handlers are skipped
RECURSIVE dispatch_first_match_only(_, _, _, _)
dispatch_first_match_only(hs, h, stack_, pos) ==
    IF h > Len(hs) THEN <<>>
    ELSE IF CommaSeparated_match_node(hs[h], stack_)
         THEN <<[pos |-> pos, handler |-> h, node |-> Last(stack_)]>>
         ELSE dispatch_first_match_only(hs, h + 1, stack_, pos)

\* dispatch that hands the root of the stack to the handlers, not the node that
\* was just pushed: an ancestor is dispatched again when a descendant opens
RECURSIVE dispatch_root_again(_, _, _, _)
dispatch_root_again(hs, h, stack_, pos) ==
    IF h > Len(hs) THEN <<>>
    ELSE (IF CommaSeparated_match_node(hs[h], stack_)
          THEN <<[pos |-> pos, handler |-> h, node |-> stack_[1]]>>
          ELSE <<>>) \o dispatch_root_again(hs, h + 1, stack_, pos)

\* lines 101-105: the handlers from index h on, each called if its group matches
RECURSIVE dispatch(_, _, _, _)
dispatch(hs, h, stack_, pos) ==
    IF h > Len(hs) THEN <<>>
    ELSE (IF CommaSeparated_match_node(hs[h], stack_)
          THEN <<[pos |-> pos, handler |-> h, node |-> Last(stack_)]>>
          ELSE <<>>) \o dispatch(hs, h + 1, stack_, pos)

\* reset without line 130: the kind of the finished tag stays
reset_keeps_kind(s) ==
    [s EXCEPT !.current_node = ParsedNode_default, !.current_attr = Attr_default,
              !.writing_to = "Content"]

\* lines 126-130
reset(s) ==
    [s EXCEPT !.current_node = ParsedNode_default, !.current_attr = Attr_default,
              !.writing_to = "Content", !.node_type = "None"]

\* lines 97-110
push_and_dispatch(s) ==
    LET pushed == Append(s.stack, s.current_node)
        event == [pos |-> consumed(s), kind |-> s.node_type,
                  node |-> s.current_node, stack |-> pushed]
    IN  [s EXCEPT !.stack = IF s.node_type = "SelfClosing" THEN s.stack ELSE pushed,
                  !.calls = @ \o dispatch(s.handlers, 1, pushed, consumed(s)),
                  !.events = Append(@, event)]

\* pop_and_compare without the comparison of the tags: any closing tag closes
pop_and_compare_any_tag(s) ==
    LET event == [pos |-> consumed(s), kind |-> s.node_type,
                  node |-> s.current_node, stack |-> s.stack]
        s1 == [s EXCEPT !.events = Append(@, event)]
    IN  IF s.stack = <<>>
        THEN [s1 EXCEPT !.result = Err("CantCloseNode", s.current_node.tag, None)]
        ELSE [s1 EXCEPT !.stack = SubSeq(@, 1, Len(@) - 1)]

\* lines 112-121
pop_and_compare(s) ==
    LET event == [pos |-> consumed(s), kind |-> s.node_type,
                  node |-> s.current_node, stack |-> s.stack]
        s1 == [s EXCEPT !.events = Append(@, event)]
    IN  IF s.stack = <<>>
        THEN [s1 EXCEPT !.result = Err("CantCloseNode", s.current_node.tag, None)]
        ELSE LET node == Last(s.stack)
                 s2 == [s1 EXCEPT !.stack = SubSeq(@, 1, Len(@) - 1)]
             IN  IF s.current_node.tag = node.tag THEN s2
                 ELSE [s2 EXCEPT !.result =
                                    Err("CantCloseNode", s.current_node.tag, Some(node))]

\* '>' arm, lines 88-131
on_gt(s) ==
    LET s1 == IF s.current_attr.name # <<>>
              THEN [s EXCEPT !.current_node.attributes =
                                 insert(@, s.current_attr.name, s.current_attr.value)]
              ELSE s
        s2 == CASE s1.node_type \in {"Opening", "SelfClosing"} -> push_and_dispatch(s1)
                [] s1.node_type = "Closing" -> pop_and_compare(s1)
                [] OTHER -> [s1 EXCEPT !.result = Panic]
    IN  IF s2.result = Running THEN reset(s2) ELSE s2

\* lines 143-165: the forward scan after whitespace in AttrName
RECURSIVE forward_scan(_)
forward_scan(s) ==
    IF s.iter = <<>> THEN s
    ELSE LET character == Head(s.iter)
             s1 == advance(s)
         IN  IF character = "=" THEN [s1 EXCEPT !.writing_to = "AttrVal"]
             ELSE IF character \in {" ", "\n", "\t"} THEN forward_scan(s1)
             ELSE LET s2 == IF s1.current_attr.name # <<>>
                            THEN [s1 EXCEPT !.current_node.attributes =
                                                insert(@, s1.current_attr.name, <<>>),
                                            !.current_attr = Attr_default]
                            ELSE s1
                  IN  [s2 EXCEPT !.current_attr.name = Append(@, character)]

\* whitespace arm, lines 133-170
on_whitespace(s) ==
    IF s.node_type = "Opening"
    THEN IF s.writing_to = "Tag" /\ s.current_node.tag # <<>>
         THEN [s EXCEPT !.writing_to = "AttrName"]
         ELSE IF s.writing_to = "AttrName" THEN forward_scan(s)
         ELSE s
    ELSE s

\* on_eq without the test of the kind: an `=` is accepted in every kind of tag
on_eq_in_any_kind(s) ==
    IF s.writing_to = "AttrName"
    THEN [s EXCEPT !.writing_to = "AttrVal"]
    ELSE [s EXCEPT !.result = Err("BadEqSign", <<>>, None)]

\* '=' arm, lines 172-180
on_eq(s) ==
    IF s.node_type = "Opening" /\ s.writing_to = "AttrName"
    THEN [s EXCEPT !.writing_to = "AttrVal"]
    ELSE [s EXCEPT !.result = Err("BadEqSign", <<>>, None)]

\* on_quote that lets either quote character close the value
on_quote_closed_by_any_quote(s, character) ==
    IF s.writing_to = "AttrVal"
    THEN LET ends == {i \in 1..Len(s.iter) : s.iter[i] \in {"\"", "'"}}
             e == CHOOSE i \in ends : \A m \in ends : i <= m
         IN  IF ends = {}
             THEN [s EXCEPT !.result =
                               Err("UnclosedString", s.current_attr.name,
                                   Some(s.current_node))]
             ELSE [s EXCEPT !.current_node.attributes =
                                insert(@, s.current_attr.name, SubSeq(s.iter, 1, e - 1)),
                            !.current_attr = Attr_default,
                            !.writing_to = "AttrName",
                            !.iter = SubSeq(s.iter, e + 1, Len(s.iter))]
    ELSE [s EXCEPT !.result = Err("BadQuote", <<>>, None)]

\* quote arm, lines 182-205
on_quote(s, character) ==
    IF s.writing_to = "AttrVal"
    THEN LET found == split_once(s.iter, <<character>>)
         IN  IF found = None
             THEN [s EXCEPT !.result =
                               Err("UnclosedString", s.current_attr.name,
                                   Some(s.current_node))]
             ELSE [s EXCEPT !.current_node.attributes =
                                insert(@, s.current_attr.name, found[1][1]),
                            !.current_attr = Attr_default,
                            !.writing_to = "AttrName",
                            !.iter = found[1][2]]
    ELSE [s EXCEPT !.result = Err("BadQuote", <<>>, None)]

\* default arm, lines 207-215
on_other(s, character) ==
    IF s.writing_to = "Tag" THEN [s EXCEPT !.current_node.tag = Append(@, character)]
    ELSE IF s.writing_to = "AttrName"
    THEN [s EXCEPT !.current_attr.name = Append(@, character)]
    ELSE [s EXCEPT !.result = Panic]

\* One iteration of the while loop, lines 25-217
loop_body(s) ==
    LET character == Head(s.iter)
        s1 == advance(s)
    IN  CASE arm(s) = "content" -> s1
          [] arm(s) = "<" -> on_lt(s1)
          [] arm(s) = "/" -> on_slash(s1)
          [] arm(s) = ">" -> on_gt(s1)
          [] arm(s) = "whitespace" -> on_whitespace(s1)
          [] arm(s) = "=" -> on_eq(s1)
          [] arm(s) = "quote" -> on_quote(s1, character)
          [] OTHER -> on_other(s1, character)

\* finish without the test of the stack
finish_always_ok(s) == [s EXCEPT !.result = Ok]

\* lines 219-225
finish(s) ==
    IF Len(s.stack) > 0
    THEN [s EXCEPT !.result = Err("UnclosedNode", <<>>, None)]
    ELSE [s EXCEPT !.result = Ok]

\* skim_xml from the locals s to its return
RECURSIVE run(_)
run(s) ==
    IF s.result # Running THEN s
    ELSE IF s.iter = <<>> THEN finish(s)
    ELSE run(loop_body(s))

\* skim_xml(xml_src, handlers): the locals when it returns; the unwrap of line 20
\* panics on a key that does not parse
skim_xml(src, keys) ==
    LET hs == parse_handlers(keys)
    IN  IF hs.kind # "Ok" THEN [start(src, <<>>) EXCEPT !.result = Panic]
        ELSE run(start(src, hs.value[1]))

-----------------------------------------------------------------------------
(* The inputs of the scan *)

\* Bounds of the model
MaxPieces == 3

MaxAttrs == 2

\* All sequences over S of length at most n
SeqsUpTo(S, n) == UNION {[1..k -> S] : k \in 0..n}

\* The concatenation of a sequence of strings
RECURSIVE concat(_)
concat(ss) == IF ss = <<>> THEN <<>> ELSE Head(ss) \o concat(Tail(ss))

\* Pieces of XML text: tags without attributes, a comment, a prolog, text, and
\* the start of a comment and of a prolog
Pieces ==
    { <<"<", "a", ">">>,
      <<"<", "b", ">">>,
      <<"<", "/", "a", ">">>,
      <<"<", "/", "b", ">">>,
      <<"<", "b", "/", ">">>,
      <<"<", "!", "-", "-", "<", "b", ">", "-", "-", ">">>,
      <<"<", "?", "x", "?", ">">>,
      <<"x">>,
      <<"<", "!", "-", "-", "x">>,
      <<"<", "?", "x">> }

\* Attributes as written in a tag, each with its leading whitespace
AttrPieces ==
    { <<" ", "k", "=", "\"", "1", "\"">>,
      <<" ", "k", "=", "'", "2", "'">>,
      <<"\n", "j", " ", "=", " ", "\"", "'", "\"">>,
      <<" ", "c">> }

\* The ends of a tag
TagEnds == { <<">">>, <<"/", ">">>, <<" ", ">">>, <<" ", "/", ">">> }

\* A tag `a` with at most MaxAttrs attributes
AttrTags ==
    { <<"<", "a">> \o concat(as) \o e : as \in SeqsUpTo(AttrPieces, MaxAttrs), e \in TagEnds }

\* Tags that are not well formed: a value without quotes, a closing tag with
\* a second `/`, a quote in a tag name and in an attribute name, a `<` in a tag,
\* an `=` in a tag name, after an `=`, in a closing and in a self-closing tag,
\* a value whose quote is not closed, a tag with no `>`
OddTags ==
    { <<"<", "a", " ", "k", "=", "1", ">">>,
      <<"<", "/", "a", "/", ">">>,
      <<"<", "a", "\"", ">">>,
      <<"<", "a", " ", "k", "'", ">">>,
      <<"<", "a", " ", "k", " ", "\"", ">">>,
      <<"<", "a", "<", "b", ">">>,
      <<"<", "a", "=", ">">>,
      <<"<", "a", " ", "k", "=", "=", "\"", "1", "\"", ">">>,
      <<"<", "/", "a", "=", ">">>,
      <<"<", "a", " ", "k", "/", "=", ">">>,
      <<"<", "a", " ", "j", "=", "'", "2", "'", " ", "k", "=", "\"", "1", "'", ">">>,
      <<"<", "a">>,
      <<"<", "a", " ", "k", " ">> }

\* The texts scanned: up to MaxPieces pieces, or a tag with attributes and a
\* piece, or a tag that is not well formed between two pieces
Docs ==
    { concat(ps) : ps \in SeqsUpTo(Pieces, MaxPieces) }
    \cup { t \o p : t \in AttrTags, p \in Pieces \cup {<<>>} }
    \cup { p \o t \o q : p \in Pieces \cup {<<>>}, t \in OddTags,
                         q \in {<<>>, <<"<", "b", ">">>} }

\* Selectors written as values
TagSel(t) == [Selector_default EXCEPT !.tag = Some(t)]

AttrSel(a, v) == [Selector_default EXCEPT !.attributes = insert(EmptyMap, a, v)]

WithParent(s, p, comb) == [s EXCEPT !.parent = Some([sel |-> p, comb |-> comb])]

\* The keys "a", "a > b", "b, a b", "[k=1], [c]" in the order of registration
Registered ==
    << <<"a">>,
       <<"a", " ", ">", " ", "b">>,
       <<"b", ",", " ", "a", " ", "b">>,
       <<"[", "k", "=", "1", "]", ",", " ", "[", "c", "]">> >>

Reverse(s) == [i \in 1..Len(s) |-> s[Len(s) + 1 - i]]

\* HashMap::into_iter yields the registered entries in an arbitrary order;
\* the model takes the order of registration and its reverse
IterationOrders == {Registered, Reverse(Registered)}

\* The wildcard key
Wildcard == <<"*">>

\* Keys that are not selector groups: an unclosed bracket, an empty id
Malformed == { <<"a", "[">>, <<"#">> }

\* What skim_xml is called with as handlers: the four keys in either order, the
\* wildcard alone, or the key "a" and then a malformed key
Registrations ==
    IterationOrders \cup {<<Wildcard>>} \cup {<< <<"a">>, m >> : m \in Malformed}

-----------------------------------------------------------------------------
(* The scan as a state machine: one action per arm of the loop body *)

Init ==
    /\ xml_src \in Docs
    /\ handler_keys \in Registrations
    /\ handlers = <<>>
    /\ iter = xml_src
    /\ stack = <<>>
    /\ current_node = ParsedNode_default
    /\ current_attr = Attr_default
    /\ node_type = "None"
    /\ writing_to = "Content"
    /\ result = Entered
    /\ calls = <<>>
    /\ events = <<>>
    /\ sel = Selector_default
    /\ matched = None
    /\ input = <<>>
    /\ parsed = None

\* lines 19-21: the selector strings are parsed and unwrapped
ParseHandlers ==
    /\ result = Entered
    /\ LET hs == parse_handlers(handler_keys)
       IN  IF hs.kind = "Ok"
           THEN handlers' = hs.value[1] /\ result' = Running
           ELSE handlers' = handlers /\ result' = Panic
    /\ UNCHANGED <<xml_src, handler_keys, iter, stack, current_node, current_attr,
                   node_type, writing_to, calls, events, sel, matched, input, parsed>>

\* The locals become those of the record n
Become(n) ==
    /\ iter' = n.iter
    /\ stack' = n.stack
    /\ current_node' = n.current_node
    /\ current_attr' = n.current_attr
    /\ node_type' = n.node_type
    /\ writing_to' = n.writing_to
    /\ result' = n.result
    /\ calls' = n.calls
    /\ events' = n.events
    /\ UNCHANGED <<xml_src, handler_keys, handlers, sel, matched, input, parsed>>

\* Reads that goes on reading after skim_xml has returned an Err
Reads_past_errors(a) ==
    result.kind \notin {"Entered", "Ok", "Panic"} /\ iter # <<>> /\ arm(State) = a

\* The loop is about to read a character handled by arm a
Reads(a) == result = Running /\ iter # <<>> /\ arm(State) = a

ReadContent == Reads("content") /\ Become(loop_body(State))

ReadLt == Reads("<") /\ Become(loop_body(State))

ReadSlash == Reads("/") /\ Become(loop_body(State))

ReadGt == Reads(">") /\ Become(loop_body(State))

ReadWhitespace == Reads("whitespace") /\ Become(loop_body(State))

ReadEq == Reads("=") /\ Become(loop_body(State))

ReadQuote == Reads("quote") /\ Become(loop_body(State))

ReadOther == Reads("other") /\ Become(loop_body(State))

\* The input is exhausted: lines 219-225
Finish == result = Running /\ iter = <<>> /\ Become(finish(State))

Next ==
    \/ ParseHandlers
    \/ ReadContent
    \/ ReadLt
    \/ ReadSlash
    \/ ReadGt
    \/ ReadWhitespace
    \/ ReadEq
    \/ ReadQuote
    \/ ReadOther
    \/ Finish

Spec == Init /\ [][Next]_vars

\* The texts of the termination check: MaxLive pieces, every attribute tag, every odd tag
MaxLive == 2

LiveDocs ==
    { concat(ps) : ps \in SeqsUpTo(Pieces, MaxLive) } \cup AttrTags \cup OddTags

\* The state at line 24: lines 19-21 have parsed the keys without a panic
InitLive ==
    /\ xml_src \in LiveDocs
    /\ handler_keys \in IterationOrders
    /\ handlers = parse_handlers(handler_keys).value[1]
    /\ iter = xml_src
    /\ stack = <<>>
    /\ current_node = ParsedNode_default
    /\ current_attr = Attr_default
    /\ node_type = "None"
    /\ writing_to = "Content"
    /\ result = Running
    /\ calls = <<>>
    /\ events = <<>>
    /\ sel = Selector_default
    /\ matched = None
    /\ input = <<>>
    /\ parsed = None

\* One iteration of the loop of line 25, or the return of lines 221-225
NextLive ==
    \/ ReadContent
    \/ ReadLt
    \/ ReadSlash
    \/ ReadGt
    \/ ReadWhitespace
    \/ ReadEq
    \/ ReadQuote
    \/ ReadOther
    \/ Finish

\* The loop runs to the return of skim_xml: nothing suspends it (no await, no
\* callback into a scheduler), so an iteration that can be taken is taken
SpecLive == InitLive /\ [][NextLive]_vars /\ WF_vars(NextLive)

-----------------------------------------------------------------------------
(* Direct calls of the matching engine: Selector::match_node on a stack, and  *)
(* Selector::match_simple on the stack's last node                            *)

MaxDepth == 4

MaxChain == 3

Combinators == {"Child", "Descendant"}

\* Nodes and simple selectors that differ in their tag only
PlainNodes == {[ParsedNode_default EXCEPT !.tag = t] : t \in {<<"a">>, <<"b">>}}

PlainSels == {Selector_default, TagSel(<<"a">>), TagSel(<<"b">>)}

\* The chains of exactly n plain simple selectors
RECURSIVE Chains(_)
Chains(n) ==
    IF n = 1 THEN PlainSels
    ELSE {WithParent(s, p, c) : s \in PlainSels, p \in Chains(n - 1), c \in Combinators}

\* Attribute maps over the given keys, each absent or with one of its values
RECURSIVE Maps(_, _)
Maps(keys, values) ==
    IF keys = {} THEN {EmptyMap}
    ELSE LET k == CHOOSE x \in keys : TRUE
             rest == Maps(keys \ {k}, values)
         IN  rest \cup {insert(m, k, v) : m \in rest, v \in values[k]}

NodeAttrValues ==
    (ID :> {<<"x">>, <<"y">>})
    @@ (CLASS :> {<<>>, <<"c">>, <<"d">>, <<"c", " ", "d">>, <<"c", "d">>})
    @@ (<<"k">> :> {<<>>, <<"v">>})

\* Nodes with any of the attributes id, class and k
RichNodes ==
    {[tag |-> t, attributes |-> m] :
        t \in {<<"a">>, <<"b">>},
        m \in Maps({ID, CLASS, <<"k">>}, NodeAttrValues)}

\* Simple selectors with any of tag, id, classes and an attribute requirement
RichSels ==
    {[tag |-> t, id |-> i, classes |-> cs, attributes |-> m, parent |-> None] :
        t \in {None, Some(<<"a">>)},
        i \in {None, Some(<<"x">>)},
        cs \in SUBSET {<<"c">>, <<"d">>},
        m \in Maps({<<"k">>}, (<<"k">> :> {None, Some(<<>>), Some(<<"v">>)}))}

InitMatch ==
    /\ \/ /\ stack \in SeqsUpTo(PlainNodes, MaxDepth)
          /\ sel \in UNION {Chains(n) : n \in 1..MaxChain}
       \/ /\ stack \in {<<n>> : n \in RichNodes}
          /\ sel \in RichSels
    /\ matched = None
    /\ input = <<>>
    /\ parsed = None
    /\ xml_src = <<>>
    /\ handler_keys = <<>>
    /\ handlers = <<>>
    /\ iter = <<>>
    /\ current_node = ParsedNode_default
    /\ current_attr = Attr_default
    /\ node_type = "None"
    /\ writing_to = "Content"
    /\ result = Running
    /\ calls = <<>>
    /\ events = <<>>

CallMatchNode ==
    /\ matched = None
    /\ matched' = Some([fn |-> "match_node", value |-> Selector_match_node(sel, stack)])
    /\ UNCHANGED <<scan_vars, stack, sel, input, parsed>>

CallMatchSimple ==
    /\ matched = None
    /\ stack # <<>>
    /\ matched' = Some([fn |-> "match_simple", value |-> match_simple(sel, Last(stack))])
    /\ UNCHANGED <<scan_vars, stack, sel, input, parsed>>

\* class_list called on the last node of the stack
CallClassList ==
    /\ matched = None
    /\ stack # <<>>
    /\ matched' = Some([fn |-> "class_list", value |-> class_list(Last(stack))])
    /\ UNCHANGED <<scan_vars, stack, sel, input, parsed>>

NextMatch == CallMatchNode \/ CallMatchSimple \/ CallClassList

SpecMatch == InitMatch /\ [][NextMatch]_vars

-----------------------------------------------------------------------------
(* Direct calls of the parsers: Selector::from_str and CommaSeparated::from_str *)

MaxTokens == 3

MaxParts == 3

\* Tokens of a simple selector: a tag, classes, an id, attributes
SimpleTokens ==
    { <<"a">>,
      <<".", "c">>,
      <<".", "d">>,
      <<"#", "i">>,
      <<"[", "k", "]">>,
      <<"[", "k", "=", "1", "]">>,
      <<"[", "k", "=", "2", "]">> }

\* Up to MaxTokens tokens written one after the other
SimpleStrings == {concat(ts) : ts \in SeqsUpTo(SimpleTokens, MaxTokens)}

\* What stands between the combinators of a chain: nothing, a tag, a class
ChainParts == { <<>>, <<"a">>, <<"b">>, <<".", "c">> }

\* What is written between two parts of a chain
Separators == { <<" ">>, <<">">>, <<" ", ">">>, <<">", " ">>, <<" ", ">", " ">> }

\* n parts with a separator between each two
RECURSIVE ChainStrings(_)
ChainStrings(n) ==
    IF n = 1 THEN ChainParts
    ELSE {x \o sep \o part : x \in ChainStrings(n - 1), sep \in Separators, part \in ChainParts}

\* Strings parsed by the tests of the repository
TestStrings ==
    { <<"t", "a", "g", "1", " ", "t", "a", "g", "2", " ", ">", " ", "t", "a", "g", "3">>,
      <<"t", "a", "g", "[", "a", "t", "t", "r", "]", "t", "a", "g">>,
      <<"t", "a", "g", "&">>,
      <<"[", " ", "a", "t", "t", "r", " ", "=", " ", "'", "v", "a", "l", " ", "]">>,
      <<"[", " ", "a", "t", "t", "r", " ", "=", " ", "v", "a", "l", " ">>,
      <<"[", " ", "a", "t", "t", "r", " ", "=", " ">>,
      <<"t", "a", "g", " ", ">", " ">> }

\* Every string made of s and the character c put at one position of it
Inserted(s, c) == {SubSeq(s, 1, i) \o <<c>> \o SubSeq(s, i + 1, Len(s)) : i \in 0..Len(s)}

\* Selectors with one punctuation character that is no prefix and no combinator
PunctStrings ==
    UNION {Inserted(s, c) :
              s \in {<<"a">>, <<"a", " ", "b">>, <<"a", " ", ">", " ", "b">>,
                     <<".", "c">>, <<"#", "i">>},
              c \in {"*", "&", "'"}}

\* Selectors with whitespace or a combinator at their end
TrailingStrings ==
    {x \o sep : x \in {<<"a">>, <<".", "c">>, <<"a", " ", "b">>, <<"[", "k", "]">>},
                sep \in Separators \cup {<<" ", " ">>, <<"\t">>}}

\* An optional space
OptSpace == {<<>>, <<" ">>}

\* An attribute token that ends inside or right after its name: `[k`, `a[ k `
OpenNames ==
    {pre \o <<"[">> \o w1 \o <<"k">> \o w2 :
        pre \in {<<>>, <<"a">>}, w1 \in OptSpace, w2 \in OptSpace}

\* An attribute token that ends at its `=`: `[k=`, `[k = `
OpenEquals == {n \o <<"=">> \o w : n \in OpenNames, w \in OptSpace}

\* An attribute token that ends after its value with no quotes: `[k=1`, `[k=1 `
OpenBareValues == {e \o <<"1">> \o w : e \in OpenEquals, w \in OptSpace}

\* An attribute token that ends inside its quoted value: `[k='`, `[k="1 ]`
OpenQuotedValues ==
    {e \o <<q>> \o v : e \in OpenEquals, q \in {"'", "\""},
                       v \in {<<>>, <<"1">>, <<"1", " ">>, <<"1", "]">>}}

\* An attribute token that ends after its quoted value: `[k='1'`, `[k="" `
ClosedQuotedValues ==
    {e \o <<q>> \o v \o <<q>> \o w : e \in OpenEquals, q \in {"'", "\""},
                                    v \in {<<>>, <<"1">>}, w \in OptSpace}

\* Selectors whose attribute token is not closed
UnclosedStrings ==
    OpenNames \cup OpenEquals \cup OpenBareValues \cup OpenQuotedValues
        \cup ClosedQuotedValues

MaxGroup == 3

\* What is written between the commas of a group
GroupPieces ==
    { <<>>, <<" ">>, <<"a">>, <<" ", "b", " ">>, <<"U+00E9">>,
      <<"[", "k", "=", "'", ",", "'", "]">> }

\* The pieces ps with a comma between each two
RECURSIVE Joined(_)
Joined(ps) ==
    IF Len(ps) = 1 THEN ps[1]
    ELSE Joined(SubSeq(ps, 1, Len(ps) - 1)) \o <<",">> \o ps[Len(ps)]

\* Groups of up to MaxGroup pieces
GroupStrings ==
    {Joined(ps) : ps \in UNION {[1..n -> GroupPieces] : n \in 1..MaxGroup}}

\* The strings given to from_str
SelectorStrings ==
    SimpleStrings \cup UNION {ChainStrings(n) : n \in 1..MaxParts} \cup TestStrings
        \cup PunctStrings \cup TrailingStrings \cup UnclosedStrings \cup GroupStrings

InitParse ==
    /\ input \in SelectorStrings
    /\ parsed = None
    /\ sel = Selector_default
    /\ matched = None
    /\ stack = <<>>
    /\ xml_src = <<>>
    /\ handler_keys = <<>>
    /\ handlers = <<>>
    /\ iter = <<>>
    /\ current_node = ParsedNode_default
    /\ current_attr = Attr_default
    /\ node_type = "None"
    /\ writing_to = "Content"
    /\ result = Entered
    /\ calls = <<>>
    /\ events = <<>>

CallSelectorFromStr ==
    /\ parsed = None
    /\ parsed' = Some([fn |-> "Selector", result |-> Selector_from_str(input)])
    /\ UNCHANGED <<scan_vars, stack, sel, matched, input>>

CallCommaSeparatedFromStr ==
    /\ parsed = None
    /\ parsed' = Some([fn |-> "CommaSeparated", result |-> CommaSeparated_from_str(input)])
    /\ UNCHANGED <<scan_vars, stack, sel, matched, input>>

NextParse == CallSelectorFromStr \/ CallCommaSeparatedFromStr

SpecParse == InitParse /\ [][NextParse]_vars

-----------------------------------------------------------------------------
(* What the selectors mean, independently of the matching code *)

\* t is one of the pieces of the string v between its single spaces
IsClassToken(t, v) ==
    \E i \in 1..(Len(v) + 1) : \E j \in (i - 1)..Len(v) :
        /\ SubSeq(v, i, j) = t
        /\ \A k \in i..j : v[k] # " "
        /\ i = 1 \/ v[i - 1] = " "
        /\ j = Len(v) \/ v[j + 1] = " "

\* The node satisfies the simple selector (its parent link is not looked at)
Satisfies(simple, node) ==
    /\ simple.tag # None => node.tag = simple.tag[1]
    /\ simple.id # None =>
          /\ ID \in DOMAIN node.attributes
          /\ node.attributes[ID] = simple.id[1]
    /\ \A c \in simple.classes :
          /\ CLASS \in DOMAIN node.attributes
          /\ IsClassToken(c, node.attributes[CLASS])
    /\ \A a \in DOMAIN simple.attributes :
          /\ a \in DOMAIN node.attributes
          /\ simple.attributes[a] # None => node.attributes[a] = simple.attributes[a][1]

\* The chain can be assigned to entries of stk with its rightmost simple selector
\* at entry i: a Child parent at the entry just before, a Descendant parent at
\* any earlier entry
RECURSIVE AssignableAt(_, _, _)
AssignableAt(chain, stk, i) ==
    /\ Satisfies(chain, stk[i])
    /\ \/ chain.parent = None
       \/ /\ chain.parent # None
          /\ IF chain.parent[1].comb = "Child"
             THEN i > 1 /\ AssignableAt(chain.parent[1].sel, stk, i - 1)
             ELSE \E j \in 1..(i - 1) : AssignableAt(chain.parent[1].sel, stk, j)

\* A direct call of fn has returned
Returned(fn) == matched # None /\ matched[1].fn = fn

\* The stack of the test `matching`
test_stack ==
    << [ParsedNode_default EXCEPT !.tag = <<"t", "a", "g", "3">>],
       [ParsedNode_default EXCEPT !.tag = <<"t", "a", "g", "2">>],
       [tag |-> <<"t", "a", "g">>,
        attributes |->
            (CLASS :> <<"c", "l", "a", "s", "s", " ", "c", "l", "s", " ", "c">>)
            @@ (ID :> <<"i", "d">>)
            @@ (<<"a", "t", "t", "r">> :> <<"v", "a", "l">>)] >>

-----------------------------------------------------------------------------
(* Claims about the matching engine, under SpecMatch *)

\* C3: Selector::match_node(stack) returns true exactly when the chain can be
\* assigned to stack entries with the rightmost selector at the last entry, each
\* Child parent at the entry immediately before its child's and each Descendant
\* parent at some entry before its child's (full ancestor semantics).
C3_MatchNodeIsAncestorSemantics ==
    Returned("match_node") =>
        matched[1].value = (stack # <<>> /\ AssignableAt(sel, stack, Len(stack)))

\* C4: for a chain of two simple selectors, `P > C` matches exactly when the last
\* entry satisfies C and the entry immediately before it satisfies P, and `P C`
\* exactly when the last entry satisfies C and some earlier entry satisfies P; on
\* [tag3, tag2, tag], `tag3 tag` and `tag3 > tag2 > tag` match, `tag3 > tag` does not.
C4_TwoSelectorChain ==
    Returned("match_node") =>
        /\ (sel.parent # None /\ sel.parent[1].sel.parent = None) =>
              LET P == sel.parent[1].sel
                  n == Len(stack)
              IN  matched[1].value =
                      /\ n >= 1
                      /\ Satisfies(sel, stack[n])
                      /\ IF sel.parent[1].comb = "Child"
                         THEN n >= 2 /\ Satisfies(P, stack[n - 1])
                         ELSE \E i \in 1..(n - 1) : Satisfies(P, stack[i])
        /\ LET tag == TagSel(<<"t", "a", "g">>)
               tag2 == TagSel(<<"t", "a", "g", "2">>)
               tag3 == TagSel(<<"t", "a", "g", "3">>)
           IN  /\ Selector_match_node(WithParent(tag, tag3, "Descendant"), test_stack)
               /\ Selector_match_node(
                      WithParent(tag, WithParent(tag2, tag3, "Child"), "Child"), test_stack)
               /\ ~Selector_match_node(WithParent(tag, tag3, "Child"), test_stack)

\* C4 witness: `P C` has matched through an ancestor that is not the parent
C4_Witness ==
    /\ Returned("match_node")
    /\ matched[1].value
    /\ sel.parent # None
    /\ sel.parent[1].sel.parent = None
    /\ sel.parent[1].comb = "Descendant"
    /\ Len(stack) >= 3
    /\ ~Satisfies(sel.parent[1].sel, stack[Len(stack) - 1])

\* C5: a simple selector matches a node exactly when its tag (if any) is the
\* node's tag, its id (if any) is the value of the node's `id` attribute (a node
\* without `id` never matching), each of its classes is in the node's class list,
\* each [attr=value] finds that attribute with exactly that value and each [attr]
\* finds the attribute present with any value, the empty string included.
C5_MatchSimple ==
    Returned("match_simple") => matched[1].value = Satisfies(sel, Last(stack))

\* C5 witness: tag, id, two classes and a bare [k] matched a node whose k is ""
C5_Witness ==
    /\ Returned("match_simple")
    /\ matched[1].value
    /\ sel.tag # None
    /\ sel.id # None
    /\ sel.classes = {<<"c">>, <<"d">>}
    /\ <<"k">> \in DOMAIN sel.attributes
    /\ sel.attributes[<<"k">>] = None
    /\ Last(stack).attributes[<<"k">>] = <<>>

-----------------------------------------------------------------------------
(* Claims about the dispatch and the end of the scan, under Spec *)

\* The loop is about to run its '>' arm with the given kinds of tag
ReadsGtOf(kinds) == Reads(">") /\ node_type \in kinds

\* The calls made by the step
NewCalls == SubSeq(calls', Len(calls) + 1, Len(calls'))

\* How many of the calls in cs went to handler h
CallsTo(cs, h) == Cardinality({i \in 1..Len(cs) : cs[i].handler = h})

Orders(s) ==
    {[i \in 1..Len(s) |-> s[f[i]]] :
        f \in {g \in [1..Len(s) -> 1..Len(s)] : \A i, j \in 1..Len(s) : g[i] = g[j] => i = j}}

\* C6: a selector group matches a stack exactly when at least one of its chains
\* matches it; permuting the chains never changes the result; and a group match
\* makes the handler fire once, however many chains match.
C6_GroupMatchesIfAnyChain ==
    [][ ReadsGtOf({"Opening", "SelfClosing"}) =>
            LET at == Last(events').stack
            IN  \A h \in 1..Len(handlers) :
                    LET group == handlers[h]
                        any == \E i \in 1..Len(group) : Selector_match_node(group[i], at)
                    IN  /\ \A g \in Orders(group) : CommaSeparated_match_node(g, at) = any
                        /\ CallsTo(NewCalls, h) = IF any THEN 1 ELSE 0
      ]_vars

\* C6 witness: both chains of a group matched a node and its handler was called once
C6_Witness ==
    \E i \in 1..Len(events) : \E h \in 1..Len(handlers) :
        /\ Len(handlers[h]) = 2
        /\ \A k \in 1..2 : Selector_match_node(handlers[h][k], events[i].stack)
        /\ Cardinality({c \in 1..Len(calls) :
                           calls[c].handler = h /\ calls[c].pos = events[i].pos}) = 1

\* C7: when the whole input has been consumed without an earlier error, skim_xml
\* returns UnclosedNode if the stack is non-empty and Ok otherwise.
C7_EndOfInput ==
    [][ (result = Running /\ iter = <<>>) =>
            /\ result' = IF stack # <<>> THEN Err("UnclosedNode", <<>>, None) ELSE Ok
            /\ stack' = stack
      ]_vars

\* C7 witness: the input was consumed with two nodes still open
C7_Witness ==
    /\ result.kind = "UnclosedNode"
    /\ iter = <<>>
    /\ Len(stack) = 2

-----------------------------------------------------------------------------
(* What an XML text says, read independently of the scan *)

Quotes == {"\"", "'"}

\* A character of a tag or attribute name
IsNameChar(c) == c \notin {"<", ">", "/", "=", "!", "?"} \cup Quotes /\ ~is_whitespace(c)

\* The first position from i on that holds no whitespace (Len(s) + 1 if none)
RECURSIVE SkipSpace(_, _)
SkipSpace(s, i) ==
    IF i <= Len(s) /\ is_whitespace(s[i]) THEN SkipSpace(s, i + 1) ELSE i

\* The first position from i on that holds no name character
RECURSIVE NameEnd(_, _)
NameEnd(s, i) ==
    IF i <= Len(s) /\ IsNameChar(s[i]) THEN NameEnd(s, i + 1) ELSE i

\* The first position from i on where pat occurs in s, or 0
FirstSub(s, i, pat) ==
    LET at == {k \in i..(Len(s) - Len(pat) + 1) : SubSeq(s, k, k + Len(pat) - 1) = pat}
    IN  IF at = {} THEN 0 ELSE CHOOSE k \in at : \A m \in at : k <= m

\* pat is written in s at position i
StartsAt(s, i, pat) == i + Len(pat) - 1 <= Len(s) /\ SubSeq(s, i, i + Len(pat) - 1) = pat

NoTag == [ok |-> FALSE, kind |-> "None", name |-> <<>>, attrs |-> EmptyMap, last |-> 0]

\* The attributes written from position i of a tag on: each is whitespace, a name
\* and either `=` and a quoted value or (if bare is allowed) nothing, which gives
\* the empty string; a name written again replaces the earlier value. `next` is
\* the position of the `/` or `>` after them.
RECURSIVE WrittenAttrs(_, _, _, _)
WrittenAttrs(s, i, attrs, bare) ==
    LET j == SkipSpace(s, i)
        e == NameEnd(s, j)
        k == SkipSpace(s, e)
        q == SkipSpace(s, k + 1)
        close == FirstSub(s, q + 1, <<s[q]>>)
    IN  IF j > Len(s) THEN [ok |-> FALSE, attrs |-> attrs, next |-> 0]
        ELSE IF s[j] \in {">", "/"} THEN [ok |-> TRUE, attrs |-> attrs, next |-> j]
        ELSE IF j = i \/ e = j THEN [ok |-> FALSE, attrs |-> attrs, next |-> 0]
        ELSE IF k <= Len(s) /\ s[k] = "="
        THEN IF q <= Len(s) /\ s[q] \in Quotes /\ close # 0
             THEN WrittenAttrs(s, close + 1,
                               insert(attrs, SubSeq(s, j, e - 1), SubSeq(s, q + 1, close - 1)),
                               bare)
             ELSE [ok |-> FALSE, attrs |-> attrs, next |-> 0]
        ELSE IF bare
        THEN WrittenAttrs(s, e, insert(attrs, SubSeq(s, j, e - 1), <<>>), bare)
        ELSE [ok |-> FALSE, attrs |-> attrs, next |-> 0]

\* The tag written at position i of s, where s[i] = "<": `<name attrs>`,
\* `<name attrs/>` or `</name>`, with whitespace allowed before the end
WrittenTag(s, i, bare) ==
    LET closing == i + 1 <= Len(s) /\ s[i + 1] = "/"
        n == IF closing THEN i + 2 ELSE i + 1
        e == NameEnd(s, n)
        name == SubSeq(s, n, e - 1)
        j == SkipSpace(s, e)
        a == WrittenAttrs(s, e, EmptyMap, bare)
    IN  IF e = n THEN NoTag
        ELSE IF closing
        THEN IF j <= Len(s) /\ s[j] = ">"
             THEN [ok |-> TRUE, kind |-> "Closing", name |-> name,
                   attrs |-> EmptyMap, last |-> j]
             ELSE NoTag
        ELSE IF ~a.ok THEN NoTag
        ELSE IF s[a.next] = ">"
        THEN [ok |-> TRUE, kind |-> "Opening", name |-> name,
              attrs |-> a.attrs, last |-> a.next]
        ELSE IF a.next + 1 <= Len(s) /\ s[a.next + 1] = ">"
        THEN [ok |-> TRUE, kind |-> "SelfClosing", name |-> name,
              attrs |-> a.attrs, last |-> a.next + 1]
        ELSE NoTag

\* From position i on, s is only tags with quoted attribute values, and they
\* close the open names and each other in proper nesting
RECURSIVE ProperlyNested(_, _, _)
ProperlyNested(s, i, open) ==
    IF i > Len(s) THEN open = <<>>
    ELSE /\ s[i] = "<"
         /\ LET t == WrittenTag(s, i, FALSE)
            IN  /\ t.ok
                /\ CASE t.kind = "Opening" ->
                           ProperlyNested(s, t.last + 1, Append(open, t.name))
                     [] t.kind = "SelfClosing" ->
                           ProperlyNested(s, t.last + 1, open)
                     [] OTHER ->
                           /\ open # <<>>
                           /\ Last(open) = t.name
                           /\ ProperlyNested(s, t.last + 1, SubSeq(open, 1, Len(open) - 1))

WellFormed(s) == ProperlyNested(s, 1, <<>>)

\* The `>` that ends the tag begun before position j, quoted text skipped
RECURSIVE TagEnd(_, _, _)
TagEnd(s, j, quote) ==
    IF j > Len(s) THEN Len(s)
    ELSE IF quote # None
    THEN TagEnd(s, j + 1, IF s[j] = quote[1] THEN None ELSE quote)
    ELSE IF s[j] \in Quotes THEN TagEnd(s, j + 1, Some(s[j]))
    ELSE IF s[j] = ">" THEN j
    ELSE TagEnd(s, j + 1, None)

\* The closed comment `<!-- ... -->` or prolog `<? ... ?>` that starts at i
ClosedAt(s, i) ==
    LET c == FirstSub(s, i + 4, <<"-", "-", ">">>)
        p == FirstSub(s, i + 2, <<"?", ">">>)
    IN  IF StartsAt(s, i, <<"<", "!", "-", "-">>)
        THEN [ok |-> c # 0, last |-> c + 2]
        ELSE IF StartsAt(s, i, <<"<", "?">>)
        THEN [ok |-> p # 0, last |-> p + 1]
        ELSE [ok |-> FALSE, last |-> 0]

\* The last position of the item that starts at i: a character of text, a
\* comment, a prolog or a tag
ItemEnd(s, i) ==
    IF s[i] # "<" THEN i
    ELSE IF ClosedAt(s, i).ok THEN ClosedAt(s, i).last
    ELSE IF StartsAt(s, i, <<"<", "!", "-", "-">>) \/ StartsAt(s, i, <<"<", "?">>)
    THEN Len(s)
    ELSE TagEnd(s, i + 1, None)

\* The positions outside any tag, comment or prolog, from i on
RECURSIVE ItemStarts(_, _)
ItemStarts(s, i) ==
    IF i > Len(s) THEN {} ELSE {i} \cup ItemStarts(s, ItemEnd(s, i) + 1)

\* skim_xml has returned or panicked
Ended == result.kind \notin {"Entered", "Running"}

\* The callbacks invoked, in order: which handler, with which node
Invocations(cs) == [i \in 1..Len(cs) |-> <<cs[i].handler, cs[i].node>>]

-----------------------------------------------------------------------------
(* Claims about whole documents, under Spec *)

\* C1: for every XML text made only of properly nested, properly quoted opening,
\* closing and self-closing tags, with any attributes and any whitespace inside
\* the tags, skim_xml returns Ok and its stack is empty at the end of the input.
\* (The registered keys are selector groups: the handlers were built.)
C1_WellFormedIsOk ==
    (Ended /\ handlers # <<>> /\ WellFormed(xml_src)) => (result = Ok /\ stack = <<>>)

\* C9: the node dispatched for an opening tag carries exactly the attributes
\* written in the tag: a value quoted with " or ' is the text between the quotes,
\* an attribute without `=value` has the empty string, and of a name written
\* more than once the value read last is stored.
C9_AttributesAsWritten ==
    events # <<>> =>
        LET e == Last(events)
        IN  \A i \in ItemStarts(xml_src, 1) :
                LET t == IF xml_src[i] = "<" THEN WrittenTag(xml_src, i, TRUE) ELSE NoTag
                IN  (t.ok /\ t.kind = "Opening" /\ t.last = e.pos) =>
                        e.node.attributes = t.attrs

\* C10: for every document in which a closed comment or a closed prolog stands
\* outside any tag, skim_xml returns the same result and makes the same sequence
\* of callback invocations as for the document with it deleted.
C10_CommentsTransparent ==
    Ended =>
        \A i \in ItemStarts(xml_src, 1) :
            ClosedAt(xml_src, i).ok =>
                LET without == SubSeq(xml_src, 1, i - 1)
                               \o SubSeq(xml_src, ClosedAt(xml_src, i).last + 1, Len(xml_src))
                    r == skim_xml(without, handler_keys)
                IN  /\ r.result = result
                    /\ Invocations(r.calls) = Invocations(calls)

-----------------------------------------------------------------------------
(* Claims about errors and the order of the callbacks, under Spec *)

\* The opening and closing delimiters of a comment and of a prolog
Delimiters ==
    { [open |-> <<"!", "-", "-">>, close |-> <<"-", "-", ">">>],
      [open |-> <<"?">>, close |-> <<"?", ">">>] }

\* C11: when `<!--` is read and no `-->` follows in the rest of the input, or
\* `<?` is read and no `?>` follows, skim_xml fails with UnclosedComment carrying
\* the text after the opening delimiter, and invokes no callback after that point.
C11_UnclosedComment ==
    [][ /\ Reads("<") =>
              LET rest == Tail(iter)
              IN  \A d \in Delimiters :
                      LET after == SubSeq(rest, Len(d.open) + 1, Len(rest))
                      IN  (StartsAt(rest, 1, d.open) /\ FirstSub(after, 1, d.close) = 0) =>
                              /\ result' = Err("UnclosedComment", after, None)
                              /\ calls' = calls
        /\ result.kind = "UnclosedComment" => calls' = calls
      ]_vars

\* C11 witness: `<a><!--x<a>`: the comment is not closed, the first `a` was
\* dispatched and the `a` after the `<!--` was not
C11_Witness ==
    /\ result = Err("UnclosedComment", <<"x", "<", "a", ">">>, None)
    /\ xml_src = <<"<", "a", ">", "<", "!", "-", "-", "x", "<", "a", ">">>
    /\ Len(calls) = 1

\* The self-closing tag written in xml_src whose final `>` is at position p
SelfClosingTagEndingAt(p) ==
    LET tags == {WrittenTag(xml_src, i, TRUE) :
                    i \in {j \in ItemStarts(xml_src, 1) : xml_src[j] = "<"}}
        ending == {t \in tags : t.ok /\ t.kind = "SelfClosing" /\ t.last = p}
    IN  IF ending = {} THEN NoTag ELSE CHOOSE t \in ending : TRUE

\* C12: a self-closing tag pushes its node, dispatches it while it is the last
\* stack entry above all its open ancestors, and pops it again in the same step:
\* after the tag the stack is identical to the stack before it, so a self-closed
\* node is never an ancestor of a later node.
C12_SelfClosingTag ==
    [][ LET t == SelfClosingTagEndingAt(consumed(State) + 1)
        IN  (Reads(">") /\ t.ok) =>
                LET e == Last(events')
                IN  /\ Len(events') = Len(events) + 1
                    /\ e.node.tag = t.name
                    /\ e.stack = Append(stack, e.node)
                    /\ \A h \in 1..Len(handlers) :
                          CallsTo(NewCalls, h) =
                              IF CommaSeparated_match_node(handlers[h], e.stack)
                              THEN 1 ELSE 0
                    /\ stack' = stack
      ]_vars

\* The errors of skim_xml that end the scan before the end of the input
StructuralErrors == {"BadQuote", "UnclosedComment", "UnclosedString", "CantCloseNode", "BadEqSign"}

\* C13: on the first structural error skim_xml returns that error at once: the
\* failing step reads only the character at which the error is and invokes no
\* callback, nothing is read or invoked after it, and the callbacks made so far
\* are those of the text before that character.
C13_StopsAtFirstError ==
    [][ /\ (result = Running /\ result'.kind \in StructuralErrors) =>
              /\ calls' = calls
              /\ iter' = Tail(iter)
              /\ stack' \in {stack, SubSeq(stack, 1, Len(stack) - 1)}
              /\ Invocations(calls) =
                    Invocations(skim_xml(SubSeq(xml_src, 1, consumed(State)),
                                         handler_keys).calls)
        /\ result.kind \in StructuralErrors => UNCHANGED <<result, calls, iter, stack>>
      ]_vars

\* C13 witness: `<a></b><a>` failed at `</b>`: the first `a` was dispatched, the
\* second `<a>` is left unread
C13_Witness ==
    /\ result.kind = "CantCloseNode"
    /\ Len(calls) = 1
    /\ iter = <<"<", "a", ">">>

\* The position in the order of registration of the handler that the scan holds
\* at index h
RegisteredAt(h) == CHOOSE k \in 1..Len(Registered) : Registered[k] = handler_keys[h]

\* C14: for a given node, the handlers whose selector groups match are invoked in
\* the order in which their selector groups were registered.
C14_RegistrationOrder ==
    handler_keys \in IterationOrders =>
        \A i, j \in 1..Len(calls) :
            (i < j /\ calls[i].pos = calls[j].pos) =>
                RegisteredAt(calls[i].handler) < RegisteredAt(calls[j].handler)

-----------------------------------------------------------------------------
(* Claims about the registered keys, under Spec *)

\* C15: a handler registered under the group key `*` is invoked for every opened
\* node and every self-closed node of the document, whatever the node's tag,
\* attributes and ancestors: once for every `>` of such a tag, and at least for
\* the tag that the document starts with.
C15_WildcardMatchesEveryNode ==
    \A h \in 1..Len(handler_keys) :
        handler_keys[h] = Wildcard =>
            /\ \A i \in 1..Len(events) :
                  events[i].kind \in {"Opening", "SelfClosing"} =>
                      Cardinality({c \in 1..Len(calls) :
                                      /\ calls[c].handler = h
                                      /\ calls[c].pos = events[i].pos
                                      /\ calls[c].node = events[i].node}) = 1
            /\ LET t == IF xml_src # <<>> /\ xml_src[1] = "<"
                        THEN WrittenTag(xml_src, 1, TRUE) ELSE NoTag
               IN  (Ended /\ t.ok /\ t.kind \in {"Opening", "SelfClosing"}) =>
                       \E c \in 1..Len(calls) :
                           calls[c].handler = h /\ calls[c].node.tag = t.name

\* C16: when a registered selector-group string is malformed, skim_xml reports
\* the selector-syntax error to its caller as an error value; it does not panic
\* and it invokes no callback.
C16_MalformedKeyIsReported ==
    (\E h \in 1..Len(handler_keys) : handler_keys[h] \in Malformed) =>
        /\ result.kind \in {"Entered"} \cup SelectorParseError
        /\ calls = <<>>

-----------------------------------------------------------------------------
(* Claims about Selector::from_str, under SpecParse *)

\* from_str of the given type has returned
ParsedBy(fn) == parsed # None /\ parsed[1].fn = fn

\* s is written without whitespace and without `>`
IsSimple(s) == s # <<>> /\ \A i \in 1..Len(s) : s[i] # ">" /\ ~is_whitespace(s[i])

\* s is whitespace with at most one `>` in it
IsSeparator(s) ==
    /\ s # <<>>
    /\ \A i \in 1..Len(s) : s[i] = ">" \/ is_whitespace(s[i])
    /\ Cardinality({i \in 1..Len(s) : s[i] = ">"}) <= 1

\* The combinator that the separator s denotes
CombinatorOf(s) == IF \E i \in 1..Len(s) : s[i] = ">" THEN "Child" ELSE "Descendant"

\* C17: parsing a chain `s1 c1 s2 c2 ... sn` yields the simple selector sn whose
\* parent is the parse of `s1 c1 ... s(n-1)` tagged with the combinator c(n-1),
\* recursively, and s1 has no parent; e.g. `tag1 tag2 > tag3` is tag3 with parent
\* (tag2, Child) whose parent is (tag1, Descendant).
C17_ChainParents ==
    ParsedBy("Selector") =>
        LET r == parsed[1].result
        IN  /\ (IsSimple(input) /\ r.kind = "Ok") => r.value[1].parent = None
            /\ \A i, j \in 1..Len(input) :
                  LET x == SubSeq(input, 1, i)
                      sep == SubSeq(input, i + 1, j)
                      last == SubSeq(input, j + 1, Len(input))
                      rx == Selector_from_str(x)
                      rlast == Selector_from_str(last)
                  IN  (/\ i < j
                       /\ x[i] # ">" /\ ~is_whitespace(x[i])
                       /\ IsSeparator(sep)
                       /\ IsSimple(last)
                       /\ rlast.kind = "Ok") =>
                          /\ r.kind = "Ok" =>
                                /\ rx.kind = "Ok"
                                /\ r.value[1] =
                                      [rlast.value[1] EXCEPT
                                          !.parent = Some([sel |-> rx.value[1],
                                                           comb |-> CombinatorOf(sep)])]
                          /\ (rx.kind = "Ok" /\ is_whitespace(sep[1])) => r.kind = "Ok"

\* C17 witness: `tag1 tag2 > tag3` was parsed as in the test of the repository
C17_Witness ==
    /\ ParsedBy("Selector")
    /\ input = <<"t", "a", "g", "1", " ", "t", "a", "g", "2", " ", ">", " ", "t", "a", "g", "3">>
    /\ parsed[1].result =
          OkOf(WithParent(TagSel(<<"t", "a", "g", "3">>),
                          WithParent(TagSel(<<"t", "a", "g", "2">>),
                                     TagSel(<<"t", "a", "g", "1">>), "Descendant"),
                          "Child"))

\* C18: the whitespace around a Child combinator is optional: `a>b`, `a >b`,
\* `a> b` and `a > b` all parse to the same chain (b with parent a, Child), while
\* whitespace with no `>` gives Descendant.
C18_CombinatorWhitespace ==
    ParsedBy("Selector") =>
        \A x, last \in {<<"a">>, <<"b">>} : \A sep \in Separators :
            input = x \o sep \o last =>
                parsed[1].result = OkOf(WithParent(TagSel(last), TagSel(x), CombinatorOf(sep)))

\* The tokens of a written simple selector: an attribute token runs from `[` to
\* `]`, any other token up to the next `#`, `.` or `[`
RECURSIVE TokensOf(_)
TokensOf(s) ==
    IF s = <<>> THEN <<>>
    ELSE LET closes == {k \in 1..Len(s) : s[k] = "]"}
             opens == {k \in 2..Len(s) : s[k] \in {"#", ".", "["}}
             e == IF Head(s) = "["
                  THEN IF closes = {} THEN Len(s)
                       ELSE CHOOSE k \in closes : \A m \in closes : k <= m
                  ELSE IF opens = {} THEN Len(s)
                       ELSE (CHOOSE k \in opens : \A m \in opens : k <= m) - 1
         IN  <<SubSeq(s, 1, e)>> \o TokensOf(SubSeq(s, e + 1, Len(s)))

\* The name written in the attribute token t
AttrNameOf(t) ==
    LET ends == {k \in 2..Len(t) : t[k] \in {"=", "]"}}
    IN  IF ends = {} THEN Tail(t)
        ELSE SubSeq(t, 2, (CHOOSE k \in ends : \A m \in ends : k <= m) - 1)

\* C19: a simple selector that names the same class twice (`.c.c`) or the same
\* attribute twice (`[a][a]`, `[a=1][a=2]`) is rejected with a parse error; the
\* duplicates are never silently merged or overwritten.
C19_DuplicatesRejected ==
    (ParsedBy("Selector") /\ IsSimple(input)) =>
        LET ts == TokensOf(input)
        IN  (\E i, j \in 1..Len(ts) :
                /\ i < j
                /\ \/ ts[i][1] = "." /\ ts[j] = ts[i]
                   \/ ts[i][1] = "[" /\ ts[j][1] = "[" /\ AttrNameOf(ts[j]) = AttrNameOf(ts[i]))
            => parsed[1].result.kind \in SelectorParseError

\* C20: in a simple selector the tag, if present, is the first token: every
\* string in which tag-name characters come after an id, class or attribute
\* token of the same simple selector (for instance directly after a closing `]`)
\* is rejected with a parse error.
C20_TagGoesFirst ==
    (ParsedBy("Selector") /\ IsSimple(input)) =>
        LET ts == TokensOf(input)
        IN  (\E i, j \in 1..Len(ts) :
                /\ i < j
                /\ ts[i][1] \in {"#", ".", "["}
                /\ ts[j][1] \notin {"#", ".", "["})
            => parsed[1].result.kind \in SelectorParseError

\* The tag, id and class names of a selector and of all its ancestors
RECURSIVE NamesOf(_)
NamesOf(selector) ==
    (IF selector.tag = None THEN {} ELSE {selector.tag[1]})
        \cup (IF selector.id = None THEN {} ELSE {selector.id[1]})
        \cup selector.classes
        \cup (IF selector.parent = None THEN {} ELSE NamesOf(selector.parent[1].sel))

\* An ASCII punctuation character that is no prefix, no bracket, no `=`, no
\* combinator and no name character
IsForeignPunctuation(c) ==
    is_ascii_punctuation(c) /\ c \notin {"#", ".", "[", "]", "=", ">", "-", "_"}

\* C21: an ASCII punctuation character other than `#`, `.`, `[`, `]`, `=`, `>`,
\* `-`, `_` is rejected with UnknownPrefix at every position of a selector string
\* outside an attribute value, also as the first character after a combinator;
\* hence the tag, id and class names of every parsed selector hold only `-`, `_`
\* and characters that are no punctuation.
C21_PunctuationRejected ==
    ParsedBy("Selector") =>
        LET r == parsed[1].result
        IN  /\ (/\ \A i \in 1..Len(input) : input[i] \notin {"[", "]", "="}
                /\ \E i \in 1..Len(input) : IsForeignPunctuation(input[i]))
                  => r.kind = "UnknownPrefix"
            /\ r.kind = "Ok" =>
                  \A name \in NamesOf(r.value[1]) : \A i \in 1..Len(name) :
                      ~IsForeignPunctuation(name[i])

\* s is x followed by sep, where x ends in a character of a token and parses, and
\* sep is whitespace with at most one `>` in it
EndsWith(x, sep) ==
    /\ input = x \o sep
    /\ x # <<>> /\ Last(x) # ">" /\ ~is_whitespace(Last(x))
    /\ IsSeparator(sep)
    /\ Selector_from_str(x).kind = "Ok"

\* The ways to cut the input in two
Cuts == {<<SubSeq(input, 1, i), SubSeq(input, i + 1, Len(input))>> : i \in 0..Len(input)}

\* C22 as stated: a selector string that ends with a Child combinator `>`, with or
\* without whitespace around it, or that ends in bare whitespace with no token
\* after it, is rejected with NoOtherSideCombinator.
C22_NothingAfterCombinator ==
    ParsedBy("Selector") =>
        \A cut \in Cuts :
            EndsWith(cut[1], cut[2]) => parsed[1].result.kind = "NoOtherSideCombinator"

\* C22 amended: a selector string that ends with a Child combinator `>` is
\* rejected, with NoOtherSideCombinator when whitespace stands before the `>`;
\* a string that ends in bare whitespace is accepted and parses as the string
\* without that whitespace.
C22_TrailingWhitespaceAccepted ==
    ParsedBy("Selector") =>
        \A cut \in Cuts :
            EndsWith(cut[1], cut[2]) =>
                LET r == parsed[1].result
                IN  /\ CombinatorOf(cut[2]) = "Child" => r.kind \in SelectorParseError
                    /\ (CombinatorOf(cut[2]) = "Child" /\ is_whitespace(cut[2][1])) =>
                          r.kind = "NoOtherSideCombinator"
                    /\ CombinatorOf(cut[2]) = "Descendant" => r = Selector_from_str(cut[1])

\* C22 witness: `tag > ` of the test was rejected, and a selector with a space
\* after it can be parsed
C22_Witness ==
    /\ ParsedBy("Selector")
    /\ \/ /\ input = <<"t", "a", "g", " ", ">", " ">>
          /\ parsed[1].result = ErrOf("NoOtherSideCombinator")
       \/ /\ input = <<"a", " ">>
          /\ parsed[1].result = OkOf(TagSel(<<"a">>))

\* Every character of s is whitespace
AllSpace(s) == \A i \in 1..Len(s) : is_whitespace(s[i])

\* s is a name or a value written without quotes
IsPlain(s) ==
    s # <<>> /\ \A i \in 1..Len(s) : ~is_whitespace(s[i]) /\ ~is_ascii_punctuation(s[i])

\* What the text s ends in: "UnclosedString" when it ends inside a quoted
\* attribute value, "UnclosedBracket" when it ends after the name, the `=`, the
\* value without quotes or the closed quoted value of an attribute token and
\* before its `]`, "None" otherwise
EndsIn(s) ==
    LET opens == {i \in 1..Len(s) : s[i] = "["}
        o == CHOOSE i \in opens : \A m \in opens : m <= i
        before == SubSeq(s, 1, o - 1)
        tail == SubSeq(s, o + 1, Len(s))
        eq == FirstSub(tail, 1, <<"=">>)
        name == trim(IF eq = 0 THEN tail ELSE SubSeq(tail, 1, eq - 1))
        value == trim_start(SubSeq(tail, eq + 1, Len(tail)))
        close == FirstSub(value, 2, <<Head(value)>>)
    IN  IF opens = {} THEN "None"
        ELSE IF before # <<>> /\ Selector_from_str(before).kind # "Ok" THEN "None"
        ELSE IF ~IsPlain(name) THEN "None"
        ELSE IF eq = 0 \/ value = <<>> THEN "UnclosedBracket"
        ELSE IF Head(value) \in Quotes
        THEN IF close = 0 THEN "UnclosedString"
             ELSE IF AllSpace(SubSeq(value, close + 1, Len(value))) THEN "UnclosedBracket"
             ELSE "None"
        ELSE IF IsPlain(trim_end(value)) THEN "UnclosedBracket"
        ELSE "None"

\* C23: a selector string whose quoted attribute value has no closing quote before
\* the end of the string is rejected with UnclosedString (although its bracket is
\* unclosed too); a string that ends, possibly after whitespace, before the
\* closing `]` of a name, of a value without quotes or of a closed quoted value
\* is rejected with UnclosedBracket.
C23_UnclosedAttribute ==
    (ParsedBy("Selector") /\ EndsIn(input) # "None") =>
        parsed[1].result = ErrOf(EndsIn(input))

\* C23 witness: both errors have been returned, UnclosedString for a value that
\* lacks its quote and its bracket
C23_Witness ==
    /\ ParsedBy("Selector")
    /\ \/ input = <<"[", "k", "=", "'", "1">> /\ parsed[1].result = ErrOf("UnclosedString")
       \/ input = <<"[", "k", "=", "'", "1", "'", " ">>
             /\ parsed[1].result = ErrOf("UnclosedBracket")

-----------------------------------------------------------------------------
(* Claims about CommaSeparated::from_str, under SpecParse *)

\* The positions from i on of the commas of s that lie outside a quoted segment;
\* open holds the quote that opened the segment around position i, if any
RECURSIVE SplitPoints(_, _, _)
SplitPoints(s, i, open) ==
    IF i > Len(s) THEN {}
    ELSE IF open # None
    THEN SplitPoints(s, i + 1, IF s[i] = open[1] THEN None ELSE open)
    ELSE IF s[i] \in Quotes THEN SplitPoints(s, i + 1, Some(s[i]))
    ELSE (IF s[i] = "," THEN {i} ELSE {}) \cup SplitPoints(s, i + 1, None)

\* The pieces of s from position i on, cut at the given commas
RECURSIVE PiecesFrom(_, _, _)
PiecesFrom(s, i, commas) ==
    LET ahead == {k \in commas : k >= i}
        k == CHOOSE x \in ahead : \A m \in ahead : x <= m
    IN  IF ahead = {} THEN <<SubSeq(s, i, Len(s))>>
        ELSE <<SubSeq(s, i, k - 1)>> \o PiecesFrom(s, k + 1, commas)

\* The pieces parsed one after the other: the first error, or all the selectors
RECURSIVE ParsedInOrder(_)
ParsedInOrder(pieces) ==
    IF pieces = <<>> THEN OkOf(<<>>)
    ELSE LET r == Selector_from_str(trim(Head(pieces)))
             rest == ParsedInOrder(Tail(pieces))
         IN  IF r.kind # "Ok" THEN r
             ELSE IF rest.kind # "Ok" THEN rest
             ELSE OkOf(<<r.value[1]>> \o rest.value[1])

\* C24: parsing a selector group splits the string at exactly the commas that lie
\* outside a quoted segment, trims each piece and parses the pieces in order; one
\* trailing comma followed only by whitespace adds no element, while any other
\* empty piece (`,a`, `a,,b`, `a,,`) makes the parse fail with EmptyString.
C24_GroupSplitAtCommas ==
    ParsedBy("CommaSeparated") =>
        LET pieces == PiecesFrom(input, 1, SplitPoints(input, 1, None))
            n == Len(pieces)
        IN  (n > 1 \/ trim(input) # <<>>) =>
                parsed[1].result =
                    ParsedInOrder(IF n > 1 /\ trim(pieces[n]) = <<>>
                                  THEN SubSeq(pieces, 1, n - 1) ELSE pieces)

-----------------------------------------------------------------------------
(* Claims about ParsedNode::class_list, under SpecMatch *)

\* The pieces of the text v between its single spaces
SpaceSeparated(v) ==
    LET cuts == {i \in 1..Len(v) : v[i] = " "} \cup {0, Len(v) + 1}
    IN  {SubSeq(v, a + 1, b - 1) :
            <<a, b>> \in {c \in cuts \X cuts :
                            c[1] < c[2] /\ \A m \in cuts : ~(c[1] < m /\ m < c[2])}}

\* C25: class_list() is the set of tokens obtained by splitting the value of the
\* `class` attribute on single spaces, and it is the empty set both when the node
\* has no `class` attribute and when the value of the attribute is the empty
\* string.
C25_ClassList ==
    Returned("class_list") =>
        LET node == Last(stack)
        IN  matched[1].value =
                IF ~contains_key(node.attributes, CLASS) \/ node.attributes[CLASS] = <<>>
                THEN {}
                ELSE SpaceSeparated(node.attributes[CLASS])

-----------------------------------------------------------------------------
(* Claims about the steps of skim_xml, under Spec *)

\* Every tag of s is written as WrittenTag reads it
AllTagsWritten(s) ==
    \A i \in ItemStarts(s, 1) :
        (s[i] = "<" /\ ~StartsAt(s, i, <<"<", "!", "-", "-">>) /\ ~StartsAt(s, i, <<"<", "?">>))
            => WrittenTag(s, i, TRUE).ok

\* The names of the opening tags of s that end at or before position upto and
\* are not closed by then, root first; the items are read from position i on
RECURSIVE OpenTags(_, _, _, _)
OpenTags(s, i, upto, open) ==
    IF i > upto \/ ItemEnd(s, i) > upto THEN open
    ELSE LET t == WrittenTag(s, i, TRUE)
             after == ItemEnd(s, i) + 1
         IN  IF s[i] # "<" \/ StartsAt(s, i, <<"<", "!", "-", "-">>)
                           \/ StartsAt(s, i, <<"<", "?">>)
             THEN OpenTags(s, after, upto, open)
             ELSE IF t.kind = "Opening" THEN OpenTags(s, after, upto, Append(open, t.name))
             ELSE IF t.kind = "Closing" /\ open # <<>>
             THEN OpenTags(s, after, upto, SubSeq(open, 1, Len(open) - 1))
             ELSE OpenTags(s, after, upto, open)

\* The stack holds exactly the open tags of the text read so far
StackMirrorsText ==
    (result = Running /\ AllTagsWritten(xml_src)) =>
        [k \in 1..Len(stack) |-> stack[k].tag]
            = OpenTags(xml_src, 1, consumed(State), <<>>)

\* C26: after every step the stack is exactly the sequence, root first, of the
\* nodes of the opening tags that have been fully read and not yet closed; only
\* the `>` that ends a tag changes the stack: one push for an opening tag, one pop
\* for a closing tag, no net change for a self-closing tag.
C26_StackMirrorsOpenTags ==
    [][ /\ StackMirrorsText
        /\ stack' # stack =>
              /\ Reads(">")
              /\ \/ node_type = "Opening" /\ Len(stack') = Len(stack) + 1
                                          /\ SubSeq(stack', 1, Len(stack)) = stack
                 \/ node_type = "Closing" /\ stack = Append(stack', Last(stack))
        /\ (Reads(">") /\ node_type = "SelfClosing") => stack' = stack
      ]_vars

\* C27: skim_xml never handles a generic character while the write target is
\* AttrVal or Content: the panic of the generic branch is unreachable.
C27_GenericBranchNeverPanics ==
    [][ReadOther => (writing_to \in {"Tag", "AttrName"} /\ result' # Panic)]_vars

\* C28: a `/` read while the kind is Opening sets the kind to Closing if the tag
\* name is still empty and to SelfClosing otherwise; a `/` read while the kind is
\* already Closing or SelfClosing leaves the kind unchanged, so `</a/>` is never
\* turned into a self-closing node.
C28_SlashSetsKindOnce ==
    [][ ReadSlash =>
            node_type' = IF node_type # "Opening" THEN node_type
                         ELSE IF current_node.tag = <<>> THEN "Closing"
                         ELSE "SelfClosing"
      ]_vars

\* C29: when a `<` begins a tag the working node is fresh, so the node pushed or
\* compared at the following `>` carries only what is written between that `<`
\* and that `>`: nothing read before the `<` (text, an earlier unfinished tag,
\* text after a comment) leaks into it.
C29_FreshNodeAtTagStart ==
    [][ (/\ ReadLt
         /\ ~StartsAt(iter, 2, <<"!", "-", "-">>)
         /\ ~StartsAt(iter, 2, <<"?">>)) =>
            /\ current_node' = ParsedNode_default
            /\ current_attr' = Attr_default
      ]_vars

\* C30: a quote read inside a tag while the write target is not AttrVal (in the
\* tag name, or in an attribute name with or without whitespace before it) makes
\* skim_xml fail with BadQuote.
C30_QuoteOutsideValue ==
    [][ (/\ result = Running
         /\ writing_to \in {"Tag", "AttrName"}
         /\ ~Reads("<")
         /\ \E p \in (consumed(State) + 1)..(Len(xml_src) - Len(iter')) :
                xml_src[p] \in Quotes) =>
            result'.kind = "BadQuote"
      ]_vars

\* C31: an `=` read inside a tag switches the write target from AttrName to
\* AttrVal when the kind is Opening and the write target is AttrName; an `=` read
\* inside a tag in any other situation (in the tag name, directly after another
\* `=`, or when the kind is Closing or SelfClosing) makes skim_xml fail with
\* BadEqSign. The step is the `=` arm, or the forward scan that meets the `=`.
C31_EqualsSign ==
    [][ LET read == xml_src[Len(xml_src) - Len(iter')]
        IN  (/\ result = Running
             /\ \/ ReadEq
                \/ ReadWhitespace /\ Len(iter') < Len(iter) - 1 /\ read = "=") =>
                IF node_type = "Opening" /\ writing_to = "AttrName"
                THEN /\ writing_to' = "AttrVal"
                     /\ result' = Running
                     /\ <<current_node', current_attr', node_type', stack'>>
                           = <<current_node, current_attr, node_type, stack>>
                ELSE result' = Err("BadEqSign", <<>>, None)
      ]_vars

\* C31 witness: BadEqSign was returned for an `=` after another `=`
C31_Witness ==
    /\ result = Err("BadEqSign", <<>>, None)
    /\ writing_to = "AttrVal"
    /\ node_type = "Opening"
    /\ xml_src[consumed(State)] = "=" /\ xml_src[consumed(State) - 1] = "="

\* C32: when a quote opens an attribute value and the same quote character does
\* not occur again in the rest of the input, skim_xml fails with UnclosedString
\* carrying the name of the pending attribute and the partially built node (its
\* tag and the attributes committed so far); the other quote character inside
\* the value never closes it.
C32_UnclosedString ==
    [][ (ReadQuote /\ writing_to = "AttrVal") =>
            IF \A i \in 2..Len(iter) : iter[i] # Head(iter)
            THEN result' = Err("UnclosedString", current_attr.name, Some(current_node))
            ELSE result' = Running
      ]_vars

\* C32 witness: the value of k in `<a j='2' k="1'>` was not closed by the `'`, and
\* the error carries k and the node a with its attribute j
C32_Witness ==
    /\ result = Err("UnclosedString", <<"k">>,
                    Some([tag |-> <<"a">>, attributes |-> insert(EmptyMap, <<"j">>, <<"2">>)]))
    /\ xml_src[consumed(State)] = "\""
    /\ \E i \in 1..Len(iter) : iter[i] = "'"

\* The `>` step at which the i-th callback was invoked
EventOf(i) ==
    LET at == {e \in 1..Len(events) : events[e].pos = calls[i].pos}
    IN  events[CHOOSE e \in at : TRUE]

\* C33: callbacks fire in document order of the `>` that completes each opening
\* or self-closing tag: all callbacks of a node are invoked before any callback of
\* a node whose tag is completed later, so an ancestor is dispatched before each
\* of its descendants, exactly once at its own opening and never again when a
\* child is opened or when it is closed.
C33_CallbacksInDocumentOrder ==
    /\ \A i, j \in 1..Len(calls) :
          i < j => /\ calls[i].pos <= calls[j].pos
                   /\ ~(calls[i].pos = calls[j].pos /\ calls[i].handler = calls[j].handler)
    /\ \A i \in 1..Len(calls) :
          /\ xml_src[calls[i].pos] = ">"
          /\ Cardinality({e \in 1..Len(events) : events[e].pos = calls[i].pos}) = 1
          /\ EventOf(i).kind \in {"Opening", "SelfClosing"}
          /\ calls[i].node = EventOf(i).node
          /\ calls[i].node = Last(EventOf(i).stack)
          /\ \A k \in 1..(Len(EventOf(i).stack) - 1) :
                \E e \in 1..Len(events) :
                    /\ events[e].pos < calls[i].pos
                    /\ events[e].kind = "Opening"
                    /\ events[e].stack = SubSeq(EventOf(i).stack, 1, k)

\* C33 witness: a callback for a node was followed by a callback for its child
C33_Witness ==
    \E i, j \in 1..Len(calls) :
        /\ i < j
        /\ calls[i].pos < calls[j].pos
        /\ Len(EventOf(j).stack) = 2
        /\ EventOf(j).stack[1] = calls[i].node
        /\ calls[j].node # calls[i].node

\* C34: skim_xml terminates on every finite input: every iteration of the scan
\* consumes at least one character and the read position never moves backwards,
\* also when a comment, a prolog or a quoted attribute value is skipped or when
\* the forward scan for a boolean attribute runs to the end of the input.
C34_ScanTerminates ==
    /\ [][ (result = Running /\ iter # <<>>) =>
               /\ Len(iter') < Len(iter)
               /\ iter' = SubSeq(iter, Len(iter) - Len(iter') + 1, Len(iter))
         ]_vars
    /\ <>Ended

\* skim_xml has returned after the forward scan for a boolean attribute ran to
\* the end of the input
C34_Witness ==
    /\ Ended
    /\ iter = <<>>
    /\ writing_to = "AttrName"
    /\ current_attr.name # <<>>
    /\ xml_src[Len(xml_src)] = " "

\* C35: in every reachable state the node kind is None exactly when the write
\* target is Content; hence a `>` is never handled with kind None, and the panic
\* of line 123 cannot happen.
C35_KindNoneIffContent ==
    /\ (node_type = "None") <=> (writing_to = "Content")
    /\ Reads(">") => node_type \in {"Opening", "SelfClosing", "Closing"}

\* A `>` is about to be handled inside a later tag, after an earlier `>` reset
\* the kind and the write target
C35_Witness ==
    /\ Reads(">")
    /\ node_type = "Closing"
    /\ writing_to = "Tag"
    /\ events # <<>>

\* C36: whitespace between the last attribute of a tag (quoted or boolean) and
\* the `>` or `/>` that ends the tag does not change what is parsed: the result,
\* the stack and the callbacks are those of the text without that whitespace
\* character (the forward scan does not take the `>` or `/` that ends the tag).
C36_WhitespaceBeforeTagEnd ==
    Ended =>
        \A i \in ItemStarts(xml_src, 1) :
            LET t == IF xml_src[i] = "<" THEN WrittenTag(xml_src, i, TRUE) ELSE NoTag
                e == IF t.kind = "SelfClosing" THEN t.last - 1 ELSE t.last
            IN  (/\ t.ok
                 /\ t.kind \in {"Opening", "SelfClosing"}
                 /\ t.attrs # EmptyMap
                 /\ is_whitespace(xml_src[e - 1])) =>
                    LET without == SubSeq(xml_src, 1, e - 2) \o SubSeq(xml_src, e, Len(xml_src))
                        r == skim_xml(without, handler_keys)
                    IN  /\ r.result = result
                        /\ r.stack = stack
                        /\ Invocations(r.calls) = Invocations(calls)

\* The text ends inside a tag: a `<` that starts a tag (not a comment or a
\* prolog) has no `>` anywhere after it
EndsMidTag(s) ==
    \E i \in ItemStarts(s, 1) :
        /\ s[i] = "<"
        /\ ~StartsAt(s, i, <<"<", "!", "-", "-">>)
        /\ ~StartsAt(s, i, <<"<", "?">>)
        /\ \A j \in (i + 1)..Len(s) : s[j] # ">"

\* C37: skim_xml returns Ok only when the input ends outside a tag: an input
\* that ends in the middle of a tag (a `<` with no `>` after it) is never
\* reported as a success, so a node whose tag was never completed is not
\* silently dropped.
C37_NoOkMidTag ==
    (Ended /\ EndsMidTag(xml_src)) => result # Ok

\* Every combinator of the chain is Descendant
RECURSIVE AllDescendant(_)
AllDescendant(chain) ==
    \/ chain.parent = None
    \/ /\ chain.parent # None
       /\ chain.parent[1].comb = "Descendant"
       /\ AllDescendant(chain.parent[1].sel)

\* The simple selectors of the chain, the leftmost (outermost ancestor) first
RECURSIVE SimplesOf(_)
SimplesOf(chain) ==
    IF chain.parent = None THEN <<chain>>
    ELSE Append(SimplesOf(chain.parent[1].sel), chain)

\* Some entries of stk, taken in stack order and ending with the last entry,
\* satisfy the simple selectors of the chain one by one
SubsequenceSatisfies(chain, stk) ==
    LET simples == SimplesOf(chain)
        k == Len(simples)
    IN  \E f \in [1..k -> 1..Len(stk)] :
            /\ f[k] = Len(stk)
            /\ \A i \in 1..(k - 1) : f[i] < f[i + 1]
            /\ \A i \in 1..k : Satisfies(simples[i], stk[f[i]])

\* C38: for a chain whose combinators are all Descendant, match_node returns
\* true exactly when the last stack entry satisfies the rightmost simple selector
\* and the other simple selectors are satisfied, in chain order, by some
\* subsequence of the earlier entries: taking the nearest matching ancestor at
\* each step loses no match.
C38_DescendantChainIsSubsequence ==
    (Returned("match_node") /\ AllDescendant(sel)) =>
        matched[1].value = (stack # <<>> /\ SubsequenceSatisfies(sel, stack))

\* A chain of three has matched although the entry just below the node does not
\* satisfy its parent selector and two lower entries do
C38_Witness ==
    /\ Returned("match_node")
    /\ matched[1].value
    /\ AllDescendant(sel)
    /\ Len(SimplesOf(sel)) = 3
    /\ Len(stack) = 4
    /\ ~Satisfies(sel.parent[1].sel, stack[3])
    /\ Satisfies(sel.parent[1].sel, stack[2])
    /\ Satisfies(sel.parent[1].sel, stack[1])

====
